---- MODULE Spec2Model ----
(***************************************************************************)
(* The retirement-projection computation pipeline of northharbor-ai:       *)
(* the orchestrator (backend/pipelines/runner.py) and its stages           *)
(* validate, normalize, derive, monte_carlo, backtest, what_if, recommend, *)
(* tables and charts.                                                      *)
(*                                                                         *)
(* Money is an integer number of 1/100 cent (10000 per dollar), rates and  *)
(* annual returns are integers in permille (55 = 5.5%), probabilities are  *)
(* integers in units of 0.0001 (9500 = 0.95).  A product of money and a    *)
(* rate is rounded half-even to the money unit, as IEEE arithmetic rounds  *)
(* each operation to its own (finer) unit.                                 *)
(***************************************************************************)
EXTENDS Integers, Sequences, FiniteSets, TLC

VARIABLES
    request,    \* the PipelineRequest: [stages, seed]
    schema,     \* the CanonicalPlanSchema snapshot the runs read
    run,        \* run[r]: the locals of invocation r of run_pipeline
    now,        \* the clock read by time.monotonic() and datetime.now()
    sim,        \* the year loop of one simulation (monte_carlo / backtest)
    doc,        \* one call of apply_patches: the object heap and its locals
    _plans,     \* InMemoryPlanStore._plans
    _sessions,  \* InMemorySessionStore._sessions
    _live_sessions, \* api/deps.py: the cache of live interview sessions
    calls       \* the callers of the stores: what each read and was returned

vars == <<request, schema, run, now, sim, doc, _plans, _sessions, _live_sessions, calls>>

\* The state of the pipeline, and the state of the schema and store services.
pipeline == <<request, schema, run, now, sim>>

services == <<doc, _plans, _sessions, _live_sessions, calls>>

\* No patch call in progress, empty stores, no caller.
ServicesIdle ==
    /\ doc = [pc |-> "idle"]
    /\ _plans = <<>>
    /\ _sessions = <<>>
    /\ _live_sessions = <<>>
    /\ calls = <<>>

\* ------------------------------------------------------------------ bounds

\* Paths per (age, scenario) simulation; the code's constant is 10_000.
SimulationCount == 2

\* The clock stops advancing at MaxClock.
MaxClock == 1

\* Longest return sequence handed to the year-by-year path simulation.
MaxYears == 4

\* --------------------------------------------------------------- numerics

Max(a, b) == IF a >= b THEN a ELSE b

Min(a, b) == IF a <= b THEN a ELSE b

\* n / d rounded to the nearest integer, ties to even (d > 0): the rounding of
\* Python's round() and of IEEE-754 arithmetic.
RoundHalfEven(n, d) ==
    LET q == n \div d
        r == n % d
    IN  IF 2 * r < d THEN q
        ELSE IF 2 * r > d THEN q + 1
        ELSE IF q % 2 = 0 THEN q ELSE q + 1

\* x * m / d rounded half-even (d > 0), computed on the quotient and remainder
\* of x by d so that no intermediate product leaves the 32-bit integers.
MulDivRound(x, m, d) ==
    LET n == (x % d) * m
        q == (x \div d) * m + (n \div d)
        r == n % d
    IN  IF 2 * r < d THEN q
        ELSE IF 2 * r > d THEN q + 1
        ELSE IF q % 2 = 0 THEN q ELSE q + 1

\* 100 * n / d rounded half-even (n >= 0, d > 0), by long division.
PercentOf(n, d) ==
    LET r0 == n % d
        t1 == (r0 * 10) \div d
        r1 == (r0 * 10) % d
        t2 == (r1 * 10) \div d
        r2 == (r1 * 10) % d
        q  == (n \div d) * 100 + t1 * 10 + t2
    IN  IF 2 * r2 < d THEN q
        ELSE IF 2 * r2 > d THEN q + 1
        ELSE IF q % 2 = 0 THEN q ELSE q + 1

\* The list seq with every element computed once (a function constructor is
\* otherwise computed anew at each application).
List(seq) == seq \o <<>>

\* round(x, 2): money rounded to whole cents.
Round2(x) == RoundHalfEven(x, 100) * 100

\* x * (1.0 + r) for a return r in permille.
Grow(x, r) == MulDivRound(x, 1000 + r, 1000)

\* round(float(np.mean(success)), 4): count / n in units of 0.0001.
Round4Mean(count, n) == RoundHalfEven(count * 10000, n)

\* dollars to money units
Dollars(n) == n * 10000

\* ------------------------------------------------- random number generator

\* Standard-normal deviates, in whole standard deviations, that the model's
\* generator can deliver.
ZTable == <<0, 1, -1, 2, -2, -4, -10>>

\* np.random.default_rng(seed): draw number k (from 0) of the generator seeded
\* with seed is a fixed function of (seed, k).
StdNormal(seed, k) ==
    ZTable[((seed + k + seed * k) % Len(ZTable)) + 1]

\* rng.normal(mean, std): draw number k of the generator seeded with seed.
NormalDraw(seed, k, mean, std) == mean + std * StdNormal(seed, k)

\* -------------------------------------------------------------- monte_carlo

\* scenario=None of _simulate_retirement_age
NoScenario == ""

sensitivity_scenarios == <<"poor_sequence_first_3_years", "delayed_market_recovery">>

\* scenario_stress with the caps applied to the first year only.
scenario_stress_first_year(name, returns) ==
    LET years == Len(returns)
    IN  IF name = "poor_sequence_first_3_years"
        THEN [y \in 1..years |->
                 IF y <= 1 THEN Min(returns[y], -150) ELSE returns[y]]
        ELSE IF name = "delayed_market_recovery"
        THEN [y \in 1..years |->
                 IF y <= 1 THEN Min(returns[y], -100) ELSE returns[y]]
        ELSE returns

\* The stress that a scenario puts on the returns one generator drew for a
\* path: returns[:n] = np.minimum(returns[:n], cap).
scenario_stress(name, returns) ==
    LET years == Len(returns)
    IN  IF name = "poor_sequence_first_3_years"
        THEN [y \in 1..years |->
                 IF y <= Min(3, years) THEN Min(returns[y], -150) ELSE returns[y]]
        ELSE IF name = "delayed_market_recovery"
        THEN [y \in 1..years |->
                 IF y <= Min(2, years) THEN Min(returns[y], -100) ELSE returns[y]]
        ELSE returns

\* _scenario_draws(name, years, rng, mean, std), rng = default_rng(rng_seed):
\* the returns of one path, years 1..years.
_scenario_draws(name, years, rng_seed, mean, std) ==
    scenario_stress(name,
                    [y \in 1..years |-> NormalDraw(rng_seed, y - 1, mean, std)])

\* draws[i, :] of _simulate_retirement_age for path i (from 0).
path_draws(scenario, i, years, seed, mean, std) ==
    IF scenario \in {"poor_sequence_first_3_years", "delayed_market_recovery"}
    THEN _scenario_draws(scenario, years, seed + i, mean, std)
    ELSE [y \in 1..years |-> NormalDraw(seed, i * years + (y - 1), mean, std)]

\* The seeds of the generators whose draws path_draws uses for a whole
\* (age, scenario) simulation; none when no year is simulated.
rng_seeds(scenario, years, simulation_count, seed) ==
    IF years <= 0 THEN {}
    ELSE IF scenario \in {"poor_sequence_first_3_years", "delayed_market_recovery"}
    THEN {seed + i : i \in 0..(simulation_count - 1)}
    ELSE {seed}

\* One year of one path: withdraw, apply the return, mark, clamp.
mc_year(p, withdrawal, r) ==
    LET b == Grow(p.balance - withdrawal, r)
    IN  [balance |-> IF b < 0 THEN 0 ELSE b,
         failed  |-> p.failed \/ b <= 0]

\* The year loop of one path over the returns draws[from..Len(draws)].
RECURSIVE mc_path(_, _, _, _)
mc_path(p, withdrawal, draws, from) ==
    IF from > Len(draws) THEN p
    ELSE mc_path(mc_year(p, withdrawal, draws[from]), withdrawal, draws, from + 1)
\* success without the legacy floor: every path that never failed succeeds.
path_success_ignores_floor(p, legacy_floor) == ~p.failed

\* success = (~failed) & (balance >= legacy_floor), for one path
path_success(p, legacy_floor) == (~p.failed) /\ p.balance >= legacy_floor
\* Percentile read from the wrong end of the sorted balances.
Percentile_descending(sorted, q) ==
    LET n   == Len(sorted)
        num == q * (n - 1)
        lo  == num \div 100
        fr  == num % 100
    IN  IF fr = 0 THEN sorted[n - lo]
        ELSE sorted[n - lo]
               + MulDivRound(sorted[n - lo - 1] - sorted[n - lo], fr, 100)

\* np.percentile(a, q) with linear interpolation; sorted is a, ascending.
Percentile(sorted, q) ==
    LET n   == Len(sorted)
        num == q * (n - 1)
        lo  == num \div 100
        fr  == num % 100
    IN  IF fr = 0 THEN sorted[lo + 1]
        ELSE sorted[lo + 1] + MulDivRound(sorted[lo + 2] - sorted[lo + 1], fr, 100)

\* The result dict of a simulated (age, scenario) from the final state of
\* its paths: success, np.mean, np.percentile and the rounding.
mc_summary(retirement_age, name, start_balance, years, final, legacy_floor) ==
    LET simulation_count == Len(final)
        nsucc == Cardinality({i \in 1..simulation_count :
                                 path_success(final[i], legacy_floor)})
        sorted == SortSeq([i \in 1..simulation_count |-> final[i].balance],
                          LAMBDA a, b : a < b)
    IN  [retirement_age |-> retirement_age, scenario |-> name,
         success_probability |-> Round4Mean(nsucc, simulation_count),
         years_simulated |-> years,
         has_percentiles |-> TRUE,
         starting_balance_real |-> Round2(start_balance),
         p05 |-> Round2(Percentile(sorted, 5)),
         p25 |-> Round2(Percentile(sorted, 25)),
         p50 |-> Round2(Percentile(sorted, 50)),
         p75 |-> Round2(Percentile(sorted, 75)),
         p95 |-> Round2(Percentile(sorted, 95))]
\* _simulate_retirement_age without the early return for years <= 0.
_simulate_retirement_age_unguarded(retirement_age, start_balance, return_mean, return_std_dev, longevity_age, monthly_spending, ss_annual, legacy_floor, simulation_count, seed, scenario) ==
    LET years == Max(longevity_age - retirement_age, 0)
        final == List([i \in 1..simulation_count |->
                    mc_path([balance |-> start_balance, failed |-> FALSE],
                            Max(monthly_spending * 12 - ss_annual, 0),
                            path_draws(scenario, i - 1, years, seed,
                                       return_mean, return_std_dev),
                            1)])
    IN  mc_summary(retirement_age,
                   IF scenario = NoScenario THEN "base" ELSE scenario,
                   start_balance, years, final, legacy_floor)

\* has_percentiles is FALSE for the four-key dict returned when no year is
\* simulated (no percentiles, no starting balance).
_simulate_retirement_age(retirement_age, start_balance, return_mean, return_std_dev, longevity_age, monthly_spending, ss_annual, legacy_floor, simulation_count, seed, scenario) ==
    LET years == longevity_age - retirement_age
        name  == IF scenario = NoScenario THEN "base" ELSE scenario
    IN  IF years <= 0
        THEN [retirement_age |-> retirement_age, scenario |-> name,
              success_probability |-> 0, years_simulated |-> 0,
              has_percentiles |-> FALSE, starting_balance_real |-> 0,
              p05 |-> 0, p25 |-> 0, p50 |-> 0, p75 |-> 0, p95 |-> 0]
        ELSE
        LET annual_spending == monthly_spending * 12
            withdrawal == Max(annual_spending - ss_annual, 0)
            final == List([i \in 1..simulation_count |->
                        mc_path([balance |-> start_balance, failed |-> FALSE],
                                withdrawal,
                                path_draws(scenario, i - 1, years, seed,
                                           return_mean, return_std_dev),
                                1)])
        IN  mc_summary(retirement_age, name, start_balance, years, final,
                       legacy_floor)

\* run_monte_carlo's Social Security benefit at the claiming age
mc_ss_annual(claiming_age, ss_67_annual, ss_70_annual) ==
    IF claiming_age <= 67 THEN ss_67_annual
    ELSE IF claiming_age >= 70 THEN ss_70_annual
    ELSE ss_67_annual
           + MulDivRound(ss_70_annual - ss_67_annual, claiming_age - 67, 3)

\* What an absent stage output reads as: outputs.get("monte_carlo", {})
NoMonteCarlo ==
    [present |-> FALSE, base_results |-> <<>>,
     sensitivity_results |-> [s \in {} |-> <<>>],
     assessment |-> [minimum_success_probability_target |-> 0,
                     all_retirement_ages_meet_target |-> FALSE,
                     recommended_retirement_age |-> 0]]

\* balances.get(f"age_{age}", inputs["current_balance"])
start_balance_of(derived, inputs, age) ==
    IF age \in DOMAIN derived.projected_balances
    THEN derived.projected_balances[age]
    ELSE inputs.current_balance

\* recommended_of with ties in success_probability going to the lowest age.
recommended_of_lowest_age(base_results) ==
    LET Key(x, y) == x.success_probability > y.success_probability
                     \/ (x.success_probability = y.success_probability
                         /\ x.retirement_age < y.retirement_age)
        best == {i \in 1..Len(base_results) :
                    \A j \in 1..Len(base_results) :
                        ~Key(base_results[j], base_results[i])}
    IN  base_results[CHOOSE i \in best : \A j \in best : i <= j]

\* max(base_results, key=lambda x: (success_probability, retirement_age)):
\* the first element whose key no other element exceeds.
recommended_of(base_results) ==
    LET Key(x, y) == x.success_probability > y.success_probability
                     \/ (x.success_probability = y.success_probability
                         /\ x.retirement_age > y.retirement_age)
        best == {i \in 1..Len(base_results) :
                    \A j \in 1..Len(base_results) :
                        ~Key(base_results[j], base_results[i])}
    IN  base_results[CHOOSE i \in best : \A j \in best : i <= j]

\* One (age, scenario) simulation as run_monte_carlo calls it: base runs are
\* seeded seed + age, every sensitivity scenario seed + age + 1000.
mc_call_seed(seed, age, scenario) ==
    IF scenario = NoScenario THEN seed + age ELSE seed + age + 1000

mc_simulate(inputs, derived, seed, age, scenario) ==
    LET ss_annual == mc_ss_annual(inputs.social_security_claiming_age,
                                  inputs.social_security_age_67_annual,
                                  inputs.social_security_age_70_annual)
    IN  _simulate_retirement_age(
            age, start_balance_of(derived, inputs, age), inputs.return_mean,
            inputs.return_std_dev, inputs.longevity_age,
            inputs.retirement_spending_monthly_real,
            IF age >= inputs.social_security_claiming_age THEN ss_annual ELSE 0,
            inputs.legacy_floor, inputs.simulation_count,
            mc_call_seed(seed, age, scenario), scenario)

\* run_monte_carlo(inputs, derived, seed): [ok, err, val]
run_monte_carlo(inputs, derived, seed) ==
    IF ~inputs.present
    THEN [ok |-> FALSE, err |-> "'retirement_ages'", val |-> NoMonteCarlo]
    ELSE IF Len(inputs.retirement_ages) = 0
    THEN [ok |-> FALSE, err |-> "max() arg is an empty sequence",
          val |-> NoMonteCarlo]
    ELSE
    LET ages == inputs.retirement_ages
        base_results == List([k \in 1..Len(ages) |->
                            mc_simulate(inputs, derived, seed, ages[k], NoScenario)])
        sens == [s \in {sensitivity_scenarios[n] :
                           n \in 1..Len(sensitivity_scenarios)} |->
                    List([k \in 1..Len(ages) |->
                        mc_simulate(inputs, derived, seed, ages[k], s)])]
        recommended == recommended_of(base_results)
    IN  [ok |-> TRUE, err |-> "",
         val |-> [present |-> TRUE,
                  base_results |-> base_results,
                  sensitivity_results |-> sens,
                  assessment |->
                    [minimum_success_probability_target |->
                         inputs.required_success_probability,
                     all_retirement_ages_meet_target |->
                         \A k \in 1..Len(base_results) :
                             base_results[k].success_probability
                               >= inputs.required_success_probability,
                     recommended_retirement_age |->
                         recommended.retirement_age]]]

\* The generator seeds each (age, scenario) combination of one run_monte_carlo
\* call draws from.
mc_seed_use(inputs, seed) ==
    [c \in {<<inputs.retirement_ages[k], s>> :
               k \in 1..Len(inputs.retirement_ages),
               s \in {NoScenario} \cup {sensitivity_scenarios[n] :
                                          n \in 1..Len(sensitivity_scenarios)}} |->
        rng_seeds(c[2], inputs.longevity_age - c[1], inputs.simulation_count,
                  mc_call_seed(seed, c[1], c[2]))]

\* ------------------------------------------------------------------ schema

\* A ProvenanceField holding a value, and one that is absent or holds None.
Some(v) == [has |-> TRUE, v |-> v]

None == [has |-> FALSE, v |-> 0]

\* client.retirement_window: None, or a NumericRange(min, max)
NoWindow == [kind |-> "none", min |-> 0, max |-> 0]

Window(lo, hi) == [kind |-> "range", min |-> lo, max |-> hi]

\* ---------------------------------------------------------------- validate

\* validate_schema(schema): [valid, errors, warnings]
validate_schema(s) ==
    LET e1 == IF s.plan_id = "" THEN <<"Missing plan_id">> ELSE <<>>
        e2 == IF s.owner_id = "" THEN <<"Missing owner_id">> ELSE <<>>
        e3 == IF s.birth_year.has /\ s.birth_year.v = 0
              THEN <<"Birth year not set">> ELSE <<>>
        w1 == IF s.retirement_balance.has /\ s.retirement_balance.v = 0
              THEN <<"Retirement balance is zero">> ELSE <<>>
        w2 == IF s.retirement_monthly_real.has /\ s.retirement_monthly_real.v = 0
              THEN <<"Monthly retirement spending is zero">> ELSE <<>>
        rw == s.retirement_window
        e4 == IF rw.kind = "range" /\ rw.min > rw.max
              THEN <<"Retirement window min > max">> ELSE <<>>
        errors == e1 \o e2 \o e3 \o e4
    IN  [valid |-> Len(errors) = 0, errors |-> errors, warnings |-> w1 \o w2]

\* --------------------------------------------------------------- normalize

\* _pf_val(pf, default)
_pf_val(pf, default) == IF pf.has THEN pf.v ELSE default

\* outputs.get("normalize", {}) when normalize has not run
NoInputs ==
    [present |-> FALSE, plan_id |-> "", birth_year |-> 0, start_age |-> 0,
     retirement_ages |-> <<>>, current_balance |-> 0,
     savings_rate_percent |-> 0, gross_annual_income |-> 0,
     retirement_spending_monthly_real |-> 0,
     social_security_age_67_monthly |-> 0, social_security_age_70_monthly |-> 0,
     social_security_age_67_annual |-> 0, social_security_age_70_annual |-> 0,
     social_security_claiming_age |-> 0, return_mean |-> 0,
     return_std_dev |-> 0, inflation_assumption |-> 0, longevity_age |-> 0,
     legacy_floor |-> 0, required_success_probability |-> 0,
     simulation_count |-> 0]

\* list(range(int(min), int(max) + 1)), or [65, 66, 67]
retirement_ages_of(rw) ==
    IF rw.kind = "range"
    THEN [k \in 1..Max(rw.max - rw.min + 1, 0) |-> rw.min + k - 1]
    ELSE <<65, 66, 67>>

\* birth_year and (2026 - birth_year) or 56
age_in_2026(birth_year) ==
    IF birth_year # 0 /\ 2026 - birth_year # 0 THEN 2026 - birth_year ELSE 56

\* total_savings_rate taking the sum whenever either new field is set.
total_savings_rate_either_field(s) ==
    LET employee_contrib == _pf_val(s.employee_contribution_percent, 0)
        employer_match == _pf_val(s.employer_match_percent, 0)
        legacy_savings_rate == _pf_val(s.savings_rate_percent, 0)
    IN  IF employee_contrib + employer_match > 0
        THEN employee_contrib + employer_match
        ELSE legacy_savings_rate

\* total_savings_rate
total_savings_rate(s) ==
    LET employee_contrib == _pf_val(s.employee_contribution_percent, 0)
        employer_match == _pf_val(s.employer_match_percent, 0)
        legacy_savings_rate == _pf_val(s.savings_rate_percent, 0)
    IN  IF employee_contrib > 0 THEN employee_contrib + employer_match
        ELSE legacy_savings_rate

\* return_mean: the real mean, else nominal minus inflation, else 5.5%
return_mean_of(s) ==
    LET inflation == _pf_val(s.inflation_assumption, 25)
    IN  IF s.return_assumption_real_mean.has THEN s.return_assumption_real_mean.v
        ELSE IF s.return_assumption_nominal.has
        THEN s.return_assumption_nominal.v - inflation
        ELSE 55

\* float(_pf_val(required_success_rate) or _pf_val(success_probability_target, 0.95))
required_success_probability_of(s) ==
    IF s.required_success_rate.has /\ s.required_success_rate.v # 0
    THEN s.required_success_rate.v
    ELSE _pf_val(s.success_probability_target, 9500)

\* normalize_inputs(schema): [ok, err, val]
normalize_inputs(s) ==
    LET retirement_ages == retirement_ages_of(s.retirement_window)
        claiming_age == Min(Max(_pf_val(s.claiming_preference, 67), 62), 70)
        ss_67 == _pf_val(s.combined_at_67_monthly, 0)
        ss_70 == _pf_val(s.combined_at_70_monthly, 0)
        birth_year == _pf_val(s.birth_year, 1970)
    IN  IF Len(retirement_ages) = 0
        THEN [ok |-> FALSE, err |-> "list index out of range", val |-> NoInputs]
        ELSE [ok |-> TRUE, err |-> "",
              val |->
                [present |-> TRUE,
                 plan_id |-> s.plan_id,
                 birth_year |-> birth_year,
                 start_age |-> Max(retirement_ages[1] - 5, age_in_2026(birth_year)),
                 retirement_ages |-> retirement_ages,
                 current_balance |-> _pf_val(s.retirement_balance, 0),
                 savings_rate_percent |-> total_savings_rate(s),
                 gross_annual_income |-> _pf_val(s.current_gross_annual, 0),
                 retirement_spending_monthly_real |->
                     _pf_val(s.retirement_monthly_real, 0),
                 social_security_age_67_monthly |-> ss_67,
                 social_security_age_70_monthly |-> ss_70,
                 social_security_age_67_annual |-> ss_67 * 12,
                 social_security_age_70_annual |-> ss_70 * 12,
                 social_security_claiming_age |-> claiming_age,
                 return_mean |-> return_mean_of(s),
                 return_std_dev |-> 110,
                 inflation_assumption |-> _pf_val(s.inflation_assumption, 25),
                 longevity_age |-> _pf_val(s.horizon_age, 95),
                 legacy_floor |-> _pf_val(s.legacy_floor, 0),
                 required_success_probability |->
                     required_success_probability_of(s),
                 simulation_count |-> SimulationCount]]

\* ------------------------------------------------------------------ derive

\* _projected_balance(current_balance, annual_contribution_real,
\*                    annual_return_real, years)
RECURSIVE _projected_balance(_, _, _, _)
_projected_balance(current_balance, annual_contribution_real, annual_return_real, years) ==
    IF years <= 0 THEN current_balance
    ELSE _projected_balance(
             Grow(current_balance + annual_contribution_real, annual_return_real),
             annual_contribution_real, annual_return_real, years - 1)

\* derive_ss_claim_annual with the fraction taken over two years.
derive_ss_claim_annual_halves(claiming_age, ss_67_annual, ss_70_annual) ==
    IF claiming_age <= 67 THEN ss_67_annual
    ELSE IF claiming_age >= 70 THEN ss_70_annual
    ELSE ss_67_annual
           + MulDivRound(ss_70_annual - ss_67_annual, claiming_age - 67, 2)

\* compute_derived_fields' Social Security benefit at the claiming age
derive_ss_claim_annual(claiming_age, ss_67_annual, ss_70_annual) ==
    IF claiming_age <= 67 THEN ss_67_annual
    ELSE IF claiming_age >= 70 THEN ss_70_annual
    ELSE ss_67_annual
           + MulDivRound(ss_70_annual - ss_67_annual, claiming_age - 67, 3)

\* outputs.get("derive", {}) when derive has not run
NoDerived ==
    [present |-> FALSE, age_keys |-> <<>>,
     projected_balances |-> [a \in {} |-> 0],
     withdrawal_analysis |-> [a \in {} |-> 0],
     spending_assumption_monthly_real |-> 0,
     social_security |-> [age_67_combined_annual |-> 0,
                          age_70_combined_annual |-> 0, claiming_age |-> 0,
                          claiming_age_combined_annual |-> 0]]

\* compute_derived_fields(inputs): [ok, err, val]
compute_derived_fields(inputs) ==
    IF ~inputs.present
    THEN [ok |-> FALSE, err |-> "'retirement_ages'", val |-> NoDerived]
    ELSE
    LET ages == {inputs.retirement_ages[k] : k \in 1..Len(inputs.retirement_ages)}
        annual_contribution ==
            MulDivRound(inputs.gross_annual_income, inputs.savings_rate_percent,
                        100)
        annual_spending == inputs.retirement_spending_monthly_real * 12
        ss_claim_annual ==
            derive_ss_claim_annual(inputs.social_security_claiming_age,
                                   inputs.social_security_age_67_annual,
                                   inputs.social_security_age_70_annual)
        balance(age) ==
            _projected_balance(inputs.current_balance, annual_contribution,
                               inputs.return_mean, Max(age - inputs.start_age, 0))
        ss_annual(age) ==
            IF age >= inputs.social_security_claiming_age
            THEN ss_claim_annual ELSE 0
        portfolio_needed(age) == Max(annual_spending - ss_annual(age), 0)
        withdrawal_4pct(age) == MulDivRound(balance(age), 4, 100)
    IN  [ok |-> TRUE, err |-> "",
         val |->
           [present |-> TRUE,
            \* the age_N keys of both dicts, in insertion order
            age_keys |-> inputs.retirement_ages,
            projected_balances |-> [a \in ages |-> Round2(balance(a))],
            withdrawal_analysis |->
              [a \in ages |->
                 [projected_balance_real |-> Round2(balance(a)),
                  annual_withdrawal_4_percent |-> Round2(withdrawal_4pct(a)),
                  monthly_withdrawal_4_percent |->
                      Round2(RoundHalfEven(withdrawal_4pct(a), 12)),
                  social_security_annual |-> Round2(ss_annual(a)),
                  annual_spending |-> Round2(annual_spending),
                  portfolio_needed_after_ss |-> Round2(portfolio_needed(a)),
                  \* in percent, two decimals fewer than the code's round(.., 6)
                  effective_withdrawal_rate |->
                      IF balance(a) > 0
                      THEN PercentOf(portfolio_needed(a), balance(a))
                      ELSE 0]],
            spending_assumption_monthly_real |->
                Round2(inputs.retirement_spending_monthly_real),
            social_security |->
              [age_67_combined_annual |-> Round2(inputs.social_security_age_67_annual),
               age_70_combined_annual |-> Round2(inputs.social_security_age_70_annual),
               claiming_age |-> inputs.social_security_claiming_age,
               claiming_age_combined_annual |-> Round2(ss_claim_annual)]]]

\* ---------------------------------------------------------------- backtest

BUILT_IN_PERIODS ==
    << [name |-> "dot_com_crash", label |-> "Dot-Com Crash (2000-2002)",
        start_year |-> 2000, end_year |-> 2002,
        annual_returns_real |-> <<-91, -119, -221>>],
       [name |-> "great_financial_crisis",
        label |-> "Great Financial Crisis (2007-2009)",
        start_year |-> 2007, end_year |-> 2009,
        annual_returns_real |-> <<55, -370, 265>>],
       [name |-> "lost_decade", label |-> "Lost Decade (2000-2009)",
        start_year |-> 2000, end_year |-> 2009,
        annual_returns_real |->
            <<-91, -119, -221, 287, 109, 49, 158, 55, -370, 265>>],
       [name |-> "stagflation", label |-> "Stagflation (1973-1974)",
        start_year |-> 1973, end_year |-> 1974,
        annual_returns_real |-> <<-147, -264>>] >>

\* modeled_returns: the first years_total returns, filled up with return_mean
modeled_returns_of(annual_returns_real, years_total, return_mean) ==
    [y \in 1..years_total |->
        IF y <= Len(annual_returns_real) THEN annual_returns_real[y]
        ELSE return_mean]

\* bt_year with the Social Security benefit left out of the withdrawal.
bt_year_ignores_ss(p, i, retirement_age, annual_spending, ss_annual, year_return) ==
    LET age == retirement_age + i
        withdrawal == Max(annual_spending, 0)
        b == Grow(p.balance - withdrawal, year_return)
        first == b <= 0 /\ ~p.depleted
    IN  [balance |-> IF b < 0 THEN 0 ELSE b,
         depleted |-> p.depleted \/ first,
         depletion_age |-> IF first THEN Some(age) ELSE p.depletion_age]

\* One year of the replay: year number i (from 0) at age retirement_age + i.
bt_year(p, i, retirement_age, annual_spending, ss_annual, year_return) ==
    LET age == retirement_age + i
        withdrawal ==
            Max(annual_spending - (IF age >= retirement_age THEN ss_annual ELSE 0),
                0)
        b == Grow(p.balance - withdrawal, year_return)
        first == b <= 0 /\ ~p.depleted
    IN  [balance |-> IF b < 0 THEN 0 ELSE b,
         depleted |-> p.depleted \/ first,
         depletion_age |-> IF first THEN Some(age) ELSE p.depletion_age]

RECURSIVE bt_path(_, _, _, _, _, _)
bt_path(p, from, retirement_age, annual_spending, ss_annual, returns) ==
    IF from > Len(returns) THEN p
    ELSE bt_path(bt_year(p, from - 1, retirement_age, annual_spending,
                         ss_annual, returns[from]),
                 from + 1, retirement_age, annual_spending, ss_annual, returns)

\* The outcome dict of a replayed period from the final state of its path.
bt_outcome(final, annual_returns_real, years_total, legacy_floor) ==
    [has_all_keys |-> TRUE,
     years_applied |-> Min(Len(annual_returns_real), years_total),
     terminal_balance_real |-> Round2(final.balance),
     success |-> (~final.depleted) /\ final.balance >= legacy_floor,
     depletion_age |-> final.depletion_age]

\* simulate_period_outcome(...): has_all_keys is FALSE for the two-key dict
\* {"success", "terminal_balance_real"} returned when no year is simulated.
simulate_period_outcome(start_balance, annual_returns_real, longevity_age, retirement_age, monthly_spending, ss_annual, legacy_floor, return_mean) ==
    LET years_total == longevity_age - retirement_age
    IN  IF years_total <= 0
        THEN [has_all_keys |-> FALSE, years_applied |-> 0,
              terminal_balance_real |-> 0, success |-> FALSE,
              depletion_age |-> None]
        ELSE bt_outcome(
                 bt_path([balance |-> start_balance, depleted |-> FALSE,
                          depletion_age |-> None],
                         1, retirement_age, monthly_spending * 12, ss_annual,
                         modeled_returns_of(annual_returns_real, years_total,
                                            return_mean)),
                 annual_returns_real, years_total, legacy_floor)

\* run_backtest's Social Security benefit at the claiming age
bt_ss_annual(claiming_age, ss_67, ss_70) ==
    IF claiming_age <= 67 THEN ss_67
    ELSE IF claiming_age >= 70 THEN ss_70
    ELSE ss_67 + MulDivRound(ss_70 - ss_67, claiming_age - 67, 3)

\* outputs.get("backtest", {}) when backtest has not run
NoBacktest ==
    [present |-> FALSE, retirement_age |-> 0, baseline_success |-> 0,
     baseline_p50 |-> 0, period_comparisons |-> <<>>]

\* assessment.get("recommended_retirement_age", 67)
recommended_age_or_67(mc_results) ==
    IF mc_results.present
    THEN mc_results.assessment.recommended_retirement_age ELSE 67

\* next((r for r in base_results if r["retirement_age"] == age), None) as the
\* index of the row, 0 for None
row_index(base_results, age) ==
    LET hits == {k \in 1..Len(base_results) : base_results[k].retirement_age = age}
    IN  IF hits = {} THEN 0 ELSE CHOOSE k \in hits : \A j \in hits : k <= j

\* row.get("terminal_balance_percentiles_real", {}).get("p50", 0)
p50_of(row) == IF row.has_percentiles THEN row.p50 ELSE 0

\* run_backtest(inputs, derived, mc_results): [ok, err, val]
run_backtest(inputs, derived, mc_results) ==
    IF ~inputs.present
    THEN [ok |-> FALSE, err |-> "'current_balance'", val |-> NoBacktest]
    ELSE
    LET recommended_age == recommended_age_or_67(mc_results)
        start_balance == start_balance_of(derived, inputs, recommended_age)
        k == row_index(mc_results.base_results, recommended_age)
        baseline_success ==
            IF k = 0 THEN 0 ELSE mc_results.base_results[k].success_probability
        baseline_p50 == IF k = 0 THEN 0 ELSE p50_of(mc_results.base_results[k])
        ss_annual == bt_ss_annual(inputs.social_security_claiming_age,
                                  inputs.social_security_age_67_annual,
                                  inputs.social_security_age_70_annual)
        outcome(period) ==
            simulate_period_outcome(
                start_balance, period.annual_returns_real, inputs.longevity_age,
                recommended_age, inputs.retirement_spending_monthly_real,
                IF recommended_age >= inputs.social_security_claiming_age
                THEN ss_annual ELSE 0,
                inputs.legacy_floor, inputs.return_mean)
        comparison(period) ==
            LET o == outcome(period)
                success_prob == IF o.success THEN 10000 ELSE 0
            IN  [name |-> period.name, label |-> period.label,
                 start_year |-> period.start_year, end_year |-> period.end_year,
                 years_applied |-> o.years_applied,
                 success |-> o.success,
                 success_as_probability |-> success_prob,
                 delta_success_vs_baseline |-> success_prob - baseline_success,
                 terminal_balance_real |-> o.terminal_balance_real,
                 delta_terminal_vs_baseline_p50 |->
                     Round2(o.terminal_balance_real - baseline_p50),
                 depletion_age |-> o.depletion_age]
    IN  \* outcome["years_applied"] on the two-key dict raises KeyError
        IF \E n \in 1..Len(BUILT_IN_PERIODS) :
               ~outcome(BUILT_IN_PERIODS[n]).has_all_keys
        THEN [ok |-> FALSE, err |-> "'years_applied'", val |-> NoBacktest]
        ELSE [ok |-> TRUE, err |-> "",
              val |-> [present |-> TRUE,
                       retirement_age |-> recommended_age,
                       baseline_success |-> baseline_success,
                       baseline_p50 |-> baseline_p50,
                       period_comparisons |->
                           [n \in 1..Len(BUILT_IN_PERIODS) |->
                               comparison(BUILT_IN_PERIODS[n])]]]

\* ----------------------------------------------------------------- what_if

\* assumptions.get(key, 0): an absent delta reads as 0
Assumptions(spending, savings, shift) ==
    [retirement_spending_monthly_real_delta |-> spending,
     savings_rate_percent_delta |-> savings,
     retirement_age_shift |-> shift]

DEFAULT_SCENARIOS ==
    << [name |-> "Higher Spending", assumptions |-> Assumptions(Dollars(500), 0, 0)],
       [name |-> "Lower Spending", assumptions |-> Assumptions(-Dollars(500), 0, 0)],
       [name |-> "Higher Savings Rate", assumptions |-> Assumptions(0, 3, 0)],
       [name |-> "Delay Retirement 2 Years", assumptions |-> Assumptions(0, 0, 2)] >>

\* outputs.get("what_if", {}) when what_if has not run
NoWhatIf ==
    [present |-> FALSE,
     baseline |-> [recommended_retirement_age |-> 0, success_probability |-> 0,
                   terminal_p50 |-> 0],
     scenario_comparisons |-> <<>>]

\* mod_inputs: the inputs with one scenario's assumptions applied
mod_inputs_of(inputs, assumptions) ==
    [inputs EXCEPT
        !.retirement_spending_monthly_real =
            @ + assumptions.retirement_spending_monthly_real_delta,
        !.savings_rate_percent = @ + assumptions.savings_rate_percent_delta,
        !.retirement_ages =
            IF assumptions.retirement_age_shift # 0
            THEN [k \in 1..Len(@) |-> @[k] + assumptions.retirement_age_shift]
            ELSE @]

\* what_if_row reading the scenario's result at the scenario's own
\* recommended age.
what_if_row_at_scenario_age(scenario, scenario_mc, baseline_age, baseline_success, baseline_p50) ==
    LET scenario_base == scenario_mc.base_results
        k == row_index(scenario_base, recommended_age_or_67(scenario_mc))
        row == IF k # 0 THEN k ELSE IF Len(scenario_base) > 0 THEN 1 ELSE 0
        sc_success == IF row = 0 THEN 0 ELSE scenario_base[row].success_probability
        sc_p50 == IF row = 0 THEN 0 ELSE p50_of(scenario_base[row])
    IN  [name |-> scenario.name,
         assumptions |-> scenario.assumptions,
         recommended_retirement_age |-> recommended_age_or_67(scenario_mc),
         success_probability_at_baseline_age |-> sc_success,
         delta_success_vs_baseline |-> sc_success - baseline_success,
         terminal_p50_at_baseline_age |-> Round2(sc_p50),
         delta_terminal_p50_vs_baseline |-> Round2(sc_p50 - baseline_p50)]

\* The comparison row of one scenario, from its own Monte Carlo results.
what_if_row(scenario, scenario_mc, baseline_age, baseline_success, baseline_p50) ==
    LET scenario_base == scenario_mc.base_results
        k == row_index(scenario_base, baseline_age)
        \* next((r ... == baseline_age), next(iter(scenario_base), None))
        row == IF k # 0 THEN k ELSE IF Len(scenario_base) > 0 THEN 1 ELSE 0
        sc_success == IF row = 0 THEN 0 ELSE scenario_base[row].success_probability
        sc_p50 == IF row = 0 THEN 0 ELSE p50_of(scenario_base[row])
    IN  [name |-> scenario.name,
         assumptions |-> scenario.assumptions,
         recommended_retirement_age |-> recommended_age_or_67(scenario_mc),
         success_probability_at_baseline_age |-> sc_success,
         delta_success_vs_baseline |-> sc_success - baseline_success,
         terminal_p50_at_baseline_age |-> Round2(sc_p50),
         delta_terminal_p50_vs_baseline |-> Round2(sc_p50 - baseline_p50)]

\* One scenario of run_what_if: scenario number idx (from 1) of the list.
\* scenario_mc is computed once and the row is read off it.
what_if_comparison(inputs, baseline_age, baseline_success, baseline_p50, seed, idx, scenario) ==
    LET mod_inputs == mod_inputs_of(inputs, scenario.assumptions)
        mod_derived == compute_derived_fields(mod_inputs).val
    IN  CHOOSE row \in
            {what_if_row(scenario, scenario_mc, baseline_age, baseline_success,
                         baseline_p50) :
                scenario_mc \in {run_monte_carlo(mod_inputs, mod_derived,
                                                 seed + idx * 100).val}} : TRUE

\* run_what_if(inputs, derived, mc_results, seed, scenarios): [ok, err, val]
run_what_if(inputs, derived, mc_results, seed, scenarios) ==
    LET baseline_age == recommended_age_or_67(mc_results)
        k == row_index(mc_results.base_results, baseline_age)
        baseline_success ==
            IF k = 0 THEN 0 ELSE mc_results.base_results[k].success_probability
        baseline_p50 == IF k = 0 THEN 0 ELSE p50_of(mc_results.base_results[k])
    IN  IF Len(scenarios) > 0 /\ ~inputs.present
        THEN [ok |-> FALSE, err |-> "'retirement_spending_monthly_real'",
              val |-> NoWhatIf]
        ELSE [ok |-> TRUE, err |-> "",
              val |-> [present |-> TRUE,
                       baseline |->
                         [recommended_retirement_age |-> baseline_age,
                          success_probability |-> baseline_success,
                          terminal_p50 |-> baseline_p50],
                       scenario_comparisons |->
                         [idx \in 1..Len(scenarios) |->
                            what_if_comparison(inputs, baseline_age,
                                               baseline_success, baseline_p50,
                                               seed, idx, scenarios[idx])]]]

\* --------------------------------------------------------------- recommend

\* A Recommendation: its rule_id and evidence (evidence keys a rule does not
\* set read 0 or "").
Recommendation(rule_id, recommended_age, earliest_modeled_age, target, worst_scenario, worst_prob, savings_rate) ==
    [rule_id |-> rule_id,
     evidence |-> [recommended_age |-> recommended_age,
                   earliest_modeled_age |-> earliest_modeled_age,
                   target_success_probability |-> target,
                   worst_stress_scenario |-> worst_scenario,
                   worst_stress_success_probability |-> worst_prob,
                   current_savings_rate |-> savings_rate]]

\* recs[:max_items] with nothing cut off.
Take_everything(seq, n) == [k \in 1..Len(seq) |-> seq[k]]

\* recs[:max_items]: the first n elements, or for a negative n all but the
\* last -n.
Take(seq, n) ==
    [k \in 1..(IF n >= 0 THEN Min(Len(seq), n) ELSE Max(Len(seq) + n, 0)) |-> seq[k]]

\* build_recommendations(inputs, mc_results, max_items)
build_recommendations(inputs, mc_results, max_items) ==
    LET target == IF mc_results.present
                  THEN mc_results.assessment.minimum_success_probability_target
                  ELSE 9500
        recommended_age == recommended_age_or_67(mc_results)
        base_results == mc_results.base_results
        retirement_ages == {base_results[k].retirement_age :
                               k \in 1..Len(base_results)}
        min_age == IF retirement_ages = {} THEN recommended_age
                   ELSE CHOOSE a \in retirement_ages :
                            \A b \in retirement_ages : a <= b
        rule_age ==
            IF recommended_age > min_age
            THEN <<Recommendation("REC_RETIREMENT_AGE_BUFFER", recommended_age,
                                  min_age, target, "", 0, 0)>>
            ELSE <<Recommendation("REC_EARLIEST_AGE_MEETS_TARGET", 0, min_age,
                                  target, "", 0, 0)>>
        \* sensitivity.items(), in insertion order
        names == SelectSeq(sensitivity_scenarios,
                           LAMBDA n : n \in DOMAIN mc_results.sensitivity_results)
        hit(n) == row_index(mc_results.sensitivity_results[n], recommended_age)
        scenario_probs ==
            [j \in 1..Len(SelectSeq(names, LAMBDA n : hit(n) # 0)) |->
                LET n == SelectSeq(names, LAMBDA m : hit(m) # 0)[j]
                IN  [name |-> n,
                     prob |-> mc_results.sensitivity_results[n][hit(n)]
                                  .success_probability]]
        \* min(scenario_probs, key=lambda x: x[1]): the first minimal one
        worst == scenario_probs[
                    CHOOSE j \in 1..Len(scenario_probs) :
                        /\ \A i \in 1..Len(scenario_probs) :
                               scenario_probs[j].prob <= scenario_probs[i].prob
                        /\ \A i \in 1..(j - 1) :
                               scenario_probs[i].prob > scenario_probs[j].prob]
        rule_stress ==
            IF Len(scenario_probs) = 0 THEN <<>>
            ELSE IF worst.prob < target
            THEN <<Recommendation("REC_STRESS_CONTINGENCY_REQUIRED", 0, 0, target,
                                  worst.name, worst.prob, 0)>>
            ELSE <<Recommendation("REC_STRESS_GUARDRAILS_MAINTAIN", 0, 0, target,
                                  worst.name, worst.prob, 0)>>
        savings_rate == IF inputs.present THEN inputs.savings_rate_percent ELSE 0
        rule_savings ==
            IF savings_rate < 10
            THEN <<Recommendation("REC_INCREASE_SAVINGS_RATE", 0, 0, 0, "", 0,
                                  savings_rate)>>
            ELSE <<>>
    IN  Take(rule_age \o rule_stress \o rule_savings, max_items)

\* ------------------------------------------------------- tables and charts

\* generate_tables(inputs, derived, mc_results, backtest_results)
generate_tables(inputs, derived, mc_results, backtest_results) ==
    LET base_results == mc_results.base_results
        summary ==
            IF Len(base_results) = 0 THEN <<>>
            ELSE << [id |-> "retirement_age_summary",
                     rows |-> [k \in 1..Len(base_results) |->
                        LET r == base_results[k]
                            age == r.retirement_age
                        IN  [retirement_age |-> age,
                             projected_balance |->
                                 IF age \in DOMAIN derived.projected_balances
                                 THEN derived.projected_balances[age] ELSE 0,
                             success_probability |-> r.success_probability,
                             terminal_p05 |-> IF r.has_percentiles THEN r.p05 ELSE 0,
                             terminal_p25 |-> IF r.has_percentiles THEN r.p25 ELSE 0,
                             terminal_p50 |-> IF r.has_percentiles THEN r.p50 ELSE 0,
                             terminal_p75 |-> IF r.has_percentiles THEN r.p75 ELSE 0,
                             terminal_p95 |-> IF r.has_percentiles THEN r.p95 ELSE 0]]] >>
        wa == derived.withdrawal_analysis
        wa_ages == derived.age_keys
        withdrawal ==
            IF DOMAIN wa = {} THEN <<>>
            ELSE << [id |-> "withdrawal_analysis",
                     rows |-> [k \in 1..Len(wa_ages) |->
                        LET val == wa[wa_ages[k]]
                        IN  [retirement_age |-> wa_ages[k],
                             withdrawal_4pct |-> val.annual_withdrawal_4_percent,
                             ss_annual |-> val.social_security_annual,
                             annual_spending |-> val.annual_spending,
                             portfolio_needed |-> val.portfolio_needed_after_ss,
                             effective_rate |-> val.effective_withdrawal_rate]]] >>
        comparisons == backtest_results.period_comparisons
        backtest ==
            IF Len(comparisons) = 0 THEN <<>>
            ELSE << [id |-> "backtest_comparison",
                     rows |-> [k \in 1..Len(comparisons) |->
                        [period |-> comparisons[k].label,
                         success |-> comparisons[k].success,
                         terminal_balance |-> comparisons[k].terminal_balance_real,
                         delta_vs_baseline |->
                             comparisons[k].delta_terminal_vs_baseline_p50]]] >>
    IN  summary \o withdrawal \o backtest

\* generate_chart_specs(inputs, derived, mc_results, backtest_results): each
\* chart's id and the data series of its echarts_option
generate_chart_specs(inputs, derived, mc_results, backtest_results) ==
    LET base_results == mc_results.base_results
        n == Len(base_results)
        ages == [k \in 1..n |-> base_results[k].retirement_age]
        pct(r, v) == IF r.has_percentiles THEN v ELSE 0
        success_by_age ==
            IF n = 0 THEN <<>>
            ELSE << [id |-> "success_by_age", x |-> ages,
                     \* round(p * 100, 1), in tenths of a percent
                     series |-> << [k \in 1..n |->
                         RoundHalfEven(base_results[k].success_probability, 10)] >>,
                     mark |-> RoundHalfEven(
                         mc_results.assessment.minimum_success_probability_target,
                         10)] >>
        terminal_balance_range ==
            IF n = 0 THEN <<>>
            ELSE << [id |-> "terminal_balance_range", x |-> ages,
                     series |->
                       << [k \in 1..n |-> pct(base_results[k], base_results[k].p95)],
                          [k \in 1..n |-> pct(base_results[k], base_results[k].p75)],
                          [k \in 1..n |-> pct(base_results[k], base_results[k].p50)],
                          [k \in 1..n |-> pct(base_results[k], base_results[k].p25)],
                          [k \in 1..n |-> pct(base_results[k], base_results[k].p05)] >>,
                     mark |-> 0] >>
        balances == derived.projected_balances
        sorted_ages == SortSeq(derived.age_keys, LAMBDA a, b : a < b)
        projected_balance_growth ==
            IF DOMAIN balances = {} THEN <<>>
            ELSE << [id |-> "projected_balance_growth", x |-> sorted_ages,
                     series |-> << [k \in 1..Len(sorted_ages) |->
                                       balances[sorted_ages[k]]] >>,
                     mark |-> 0] >>
        comparisons == backtest_results.period_comparisons
        backtest_chart ==
            IF Len(comparisons) = 0 THEN <<>>
            ELSE << [id |-> "backtest_results",
                     x |-> [k \in 1..Len(comparisons) |-> comparisons[k].label],
                     series |-> << [k \in 1..Len(comparisons) |->
                         [value |-> comparisons[k].terminal_balance_real,
                          color |-> IF comparisons[k].success
                                    THEN "#22c55e" ELSE "#ef4444"]] >>,
                     mark |-> 0] >>
    IN  success_by_age \o terminal_balance_range \o projected_balance_growth
          \o backtest_chart

\* ------------------------------------------------------------------ runner

stage_sequence ==
    <<"validate", "normalize", "derive", "monte_carlo", "backtest", "what_if",
      "recommend", "tables", "charts">>

PipelineStage == {stage_sequence[k] : k \in 1..Len(stage_sequence)}

\* requested = {s.value for s in request.stages}
requested_of(req) == {req.stages[k] : k \in 1..Len(req.stages)}

\* validate_schema's result before validate has run
NoValidation == [valid |-> FALSE, errors |-> <<>>, warnings |-> <<>>]

\* outputs: dict[str, Any] = {}
NoOutputs ==
    [keys |-> {}, validate |-> NoValidation, normalize |-> NoInputs,
     derive |-> NoDerived, monte_carlo |-> NoMonteCarlo,
     backtest |-> NoBacktest, what_if |-> NoWhatIf, recommend |-> <<>>,
     tables |-> <<>>, charts |-> <<>>]

StageResult(stage, status, duration_ms, errors) ==
    [stage |-> stage, status |-> status, duration_ms |-> duration_ms,
     errors |-> errors]

\* _build_metrics(outputs); a key that is not set, or set to None, reads
\* [has |-> FALSE]
_build_metrics(outputs) ==
    LET mc == outputs.monte_carlo
        k == IF mc.present
             THEN row_index(mc.base_results,
                            mc.assessment.recommended_retirement_age)
             ELSE 0
    IN  [recommended_retirement_age |->
             IF mc.present THEN Some(mc.assessment.recommended_retirement_age)
             ELSE None,
         target_success_probability |->
             IF mc.present
             THEN Some(mc.assessment.minimum_success_probability_target)
             ELSE None,
         all_ages_meet_target |->
             mc.present /\ mc.assessment.all_retirement_ages_meet_target,
         recommended_age_success_probability |->
             IF k # 0 THEN Some(mc.base_results[k].success_probability) ELSE None,
         recommended_age_terminal_p50 |->
             IF k # 0 /\ mc.base_results[k].has_percentiles
             THEN Some(mc.base_results[k].p50) ELSE None]

\* PipelineOutputs(...) as run_pipeline builds it from outputs
pipeline_outputs(outputs) ==
    [derived_fields |-> outputs.derive,
     monte_carlo_results |-> outputs.monte_carlo,
     backtest_results |-> outputs.backtest,
     what_if_results |-> outputs.what_if,
     recommendations |-> outputs.recommend,
     tables |-> outputs.tables,
     chart_specs |-> outputs.charts,
     metrics |-> _build_metrics(outputs)]

\* The locals of one invocation of run_pipeline.  executed lists the stages
\* whose stage function has been called.
IdleRun ==
    [pc |-> "idle", idx |-> 1, pipeline_id |-> "", started_at |-> 0,
     completed_at |-> 0, results |-> <<>>, outputs |-> NoOutputs,
     executed |-> <<>>]

\* The PipelineResult that invocation rec returns (rec.pc = "done").
PipelineResult(rec) ==
    [pipeline_id |-> rec.pipeline_id, started_at |-> rec.started_at,
     completed_at |-> rec.completed_at, stages |-> rec.results,
     outputs |-> pipeline_outputs(rec.outputs)]

\* ------------------------------------------------------------------ inputs

Runs == {1, 2}

\* uuid.uuid4() delivers one of these
PipelineIds == {"id-a", "id-b"}

\* A plan as the interview leaves it, every field the pipeline reads set.
BaseSchema ==
    [plan_id |-> "plan-1", owner_id |-> "owner-1",
     birth_year |-> Some(1962),
     retirement_window |-> Window(65, 66),
     claiming_preference |-> None,
     combined_at_67_monthly |-> Some(Dollars(100)),
     combined_at_70_monthly |-> Some(Dollars(130)),
     inflation_assumption |-> None,
     return_assumption_real_mean |-> None,
     return_assumption_nominal |-> None,
     horizon_age |-> Some(68),
     legacy_floor |-> Some(0),
     required_success_rate |-> Some(5000),
     success_probability_target |-> Some(9500),
     employee_contribution_percent |-> None,
     employer_match_percent |-> None,
     savings_rate_percent |-> Some(8),
     retirement_balance |-> Some(Dollars(12000)),
     current_gross_annual |-> Some(Dollars(1000)),
     retirement_monthly_real |-> Some(Dollars(300))]

\* The plan snapshots the runs are given.
Schemas ==
    {[BaseSchema EXCEPT !.plan_id = id[1], !.birth_year = id[2],
                        !.retirement_window = rw, !.horizon_age = Some(h),
                        !.retirement_balance = Some(money[1]),
                        !.retirement_monthly_real = Some(money[2])] :
        id \in {<<"plan-1", Some(1962)>>, <<"plan-1", Some(0)>>,
                <<"", Some(0)>>},
        rw \in {NoWindow, Window(65, 66), Window(66, 65)},
        h \in {65, 66, 68},
        money \in {<<Dollars(12000), Dollars(300)>>, <<Dollars(12000), 0>>,
                   <<0, Dollars(300)>>}}

\* The stages of S in the order of stage_sequence
InOrder(S) == SelectSeq(stage_sequence, LAMBDA k : k \in S)

Reverse(seq) == [k \in 1..Len(seq) |-> seq[Len(seq) + 1 - k]]

\* The sets of requested stages: every prefix of the sequence, every single
\* stage, and every set that leaves one stage out.
RequestedSets ==
    {{stage_sequence[k] : k \in 1..n} : n \in 0..Len(stage_sequence)}
      \cup {{k} : k \in PipelineStage}
      \cup {PipelineStage \ {k} : k \in PipelineStage}

\* request.stages: a requested set in sequence order, or (for the larger sets)
\* in reverse order with its last stage listed twice.
StageLists ==
    {InOrder(S) : S \in RequestedSets}
      \cup {Reverse(InOrder(S)) \o <<InOrder(S)[Len(InOrder(S))]>> :
               S \in {T \in RequestedSets :
                         Cardinality(T) >= Len(stage_sequence) - 1}}

Seeds == {42}

Requests == [stages : StageLists, seed : Seeds]

\* No path is being simulated.
IdleSim ==
    [kind |-> "idle", year |-> 0, retirement_age |-> 0, start_balance |-> 0,
     monthly_spending |-> 0, ss_annual |-> 0, legacy_floor |-> 0,
     annual_returns_real |-> <<>>, scenario |-> NoScenario, drawn |-> <<>>,
     draws |-> <<>>, paths |-> <<>>, history |-> <<>>, done |-> FALSE]

Init ==
    /\ request \in Requests
    /\ schema \in Schemas
    /\ run = [r \in Runs |-> IdleRun]
    /\ now = 0
    /\ sim = IdleSim
    /\ ServicesIdle

\* ----------------------------------------------------------------- actions

\* run_pipeline is entered: pipeline_id, started_at, results, outputs
Start(r) ==
    /\ run[r].pc = "idle"
    /\ \E id \in PipelineIds :
          run' = [run EXCEPT ![r] = [IdleRun EXCEPT !.pc = "loop",
                                                    !.pipeline_id = id,
                                                    !.started_at = now]]
    /\ UNCHANGED <<request, schema, now, sim, services>>

\* The loop is at stage key of invocation r, and key is requested.
AtStage(r, key) ==
    /\ run[r].pc = "loop"
    /\ stage_sequence[run[r].idx] = key
    /\ key \in requested_of(request)

\* Advance that stays on a stage that request.stages lists twice.
Advance_repeats(rec) ==
    IF Cardinality({k \in 1..Len(request.stages) :
                       request.stages[k] = stage_sequence[rec.idx]}) > 1
          /\ Len(rec.results) < Len(stage_sequence)
    THEN rec
    ELSE IF rec.idx = Len(stage_sequence) THEN [rec EXCEPT !.pc = "finish"]
    ELSE [rec EXCEPT !.idx = @ + 1]

\* The loop moves on to the next stage, or ends after the last one.
Advance(rec) ==
    IF rec.idx = Len(stage_sequence) THEN [rec EXCEPT !.pc = "finish"]
    ELSE [rec EXCEPT !.idx = @ + 1]

\* The stage ran for d ms and succeeded: the success StageResult is appended.
Succeed(r, key, outputs, d) ==
    /\ now + d <= MaxClock
    /\ now' = now + d
    /\ run' = [run EXCEPT ![r] =
                  Advance([@ EXCEPT
                      !.outputs = outputs,
                      !.executed = Append(@, key),
                      !.results = Append(@, StageResult(key, "success", d, <<>>))])]
    /\ UNCHANGED <<request, schema, sim, services>>

\* Fail without the break: the failed StageResult is appended and the loop
\* goes on to the next stage.
Fail_continues(r, key, outputs, errors, d) ==
    /\ now + d <= MaxClock
    /\ now' = now + d
    /\ run' = [run EXCEPT ![r] =
                  Advance([@ EXCEPT
                      !.outputs = outputs,
                      !.executed = Append(@, key),
                      !.results = Append(@, StageResult(key, "failed", d, errors))])]
    /\ UNCHANGED <<request, schema, sim, services>>

\* The stage ran for d ms and failed: the failed StageResult, then break.
Fail(r, key, outputs, errors, d) ==
    /\ now + d <= MaxClock
    /\ now' = now + d
    /\ run' = [run EXCEPT ![r] =
                  [@ EXCEPT
                      !.pc = "finish",
                      !.outputs = outputs,
                      !.executed = Append(@, key),
                      !.results = Append(@, StageResult(key, "failed", d, errors))]]
    /\ UNCHANGED <<request, schema, sim, services>>

\* outputs[key] = val
SetOutput(outputs, key, val) ==
    [[outputs EXCEPT !.keys = @ \cup {key}] EXCEPT ![key] = val]

\* The body of the try for a stage whose function returned res = [ok, err, val]
\* or raised.
Stage(r, key, res, d) ==
    IF res.ok
    THEN Succeed(r, key, SetOutput(run[r].outputs, key, res.val), d)
    ELSE Fail(r, key, run[r].outputs, <<res.err>>, d)

\* Skip that calls the stage function of a stage that was not requested.
Skip_executes(r) ==
    /\ run[r].pc = "loop"
    /\ stage_sequence[run[r].idx] \notin requested_of(request)
    /\ run' = [run EXCEPT ![r] =
                  Advance([@ EXCEPT
                      !.executed = Append(@, stage_sequence[run[r].idx]),
                      !.results =
                          Append(@, StageResult(stage_sequence[run[r].idx],
                                                "skipped", 0, <<>>))])]
    /\ UNCHANGED <<request, schema, now, sim, services>>

\* if stage_key not in requested: a skipped StageResult, continue
Skip(r) ==
    /\ run[r].pc = "loop"
    /\ stage_sequence[run[r].idx] \notin requested_of(request)
    /\ run' = [run EXCEPT ![r] =
                  Advance([@ EXCEPT
                      !.results =
                          Append(@, StageResult(stage_sequence[run[r].idx],
                                                "skipped", 0, <<>>))])]
    /\ UNCHANGED <<request, schema, now, sim, services>>

\* Validate that ignores validation["valid"] and always records success.
Validate_ignores_errors(r) ==
    /\ AtStage(r, "validate")
    /\ \E d \in 0..MaxClock :
          Succeed(r, "validate",
                  SetOutput(run[r].outputs, "validate", validate_schema(schema)), d)


Validate(r) ==
    /\ AtStage(r, "validate")
    /\ \E d \in 0..MaxClock :
          LET validation == validate_schema(schema)
              outputs == SetOutput(run[r].outputs, "validate", validation)
          IN  IF validation.valid
              THEN Succeed(r, "validate", outputs, d)
              ELSE Fail(r, "validate", outputs, validation.errors, d)

Normalize(r) ==
    /\ AtStage(r, "normalize")
    /\ \E d \in 0..MaxClock : Stage(r, "normalize", normalize_inputs(schema), d)

\* Derive that reads missing inputs as empty defaults instead of raising.
Derive_lenient(r) ==
    /\ AtStage(r, "derive")
    /\ \E d \in 0..MaxClock :
          Stage(r, "derive",
                IF run[r].outputs.normalize.present
                THEN compute_derived_fields(run[r].outputs.normalize)
                ELSE [ok |-> TRUE, err |-> "",
                      val |-> [NoDerived EXCEPT !.present = TRUE]], d)

Derive(r) ==
    /\ AtStage(r, "derive")
    /\ \E d \in 0..MaxClock :
          Stage(r, "derive", compute_derived_fields(run[r].outputs.normalize), d)
\* MonteCarlo seeded from the request seed and the clock.
MonteCarlo_clock_seeded(r) ==
    /\ AtStage(r, "monte_carlo")
    /\ \E d \in 0..MaxClock :
          Stage(r, "monte_carlo",
                run_monte_carlo(run[r].outputs.normalize, run[r].outputs.derive,
                                request.seed + run[r].started_at), d)

\* MonteCarlo drawing from one generator that all invocations share: each
\* call advances it, so a call's draws depend on the calls made before it.
MonteCarlo_global_rng(r) ==
    /\ AtStage(r, "monte_carlo")
    /\ \E d \in 0..MaxClock :
          Stage(r, "monte_carlo",
                run_monte_carlo(run[r].outputs.normalize, run[r].outputs.derive,
                                request.seed
                                  + Cardinality({q \in Runs :
                                       "monte_carlo" \in run[q].outputs.keys})), d)

MonteCarlo(r) ==
    /\ AtStage(r, "monte_carlo")
    /\ \E d \in 0..MaxClock :
          Stage(r, "monte_carlo",
                run_monte_carlo(run[r].outputs.normalize, run[r].outputs.derive,
                                request.seed), d)

Backtest(r) ==
    /\ AtStage(r, "backtest")
    /\ \E d \in 0..MaxClock :
          Stage(r, "backtest",
                run_backtest(run[r].outputs.normalize, run[r].outputs.derive,
                             run[r].outputs.monte_carlo), d)

\* WhatIf with mod_inputs = inputs in place of dict(inputs): the deltas of
\* the last scenario are left in the normalized inputs of the run.
WhatIf_shares_inputs(r) ==
    /\ AtStage(r, "what_if")
    /\ \E d \in 0..MaxClock :
          \E res \in {run_what_if(run[r].outputs.normalize, run[r].outputs.derive,
                                  run[r].outputs.monte_carlo, request.seed,
                                  DEFAULT_SCENARIOS)} :
             IF res.ok
             THEN Succeed(r, "what_if",
                          SetOutput([run[r].outputs EXCEPT
                                        !.normalize =
                                            mod_inputs_of(@,
                                                DEFAULT_SCENARIOS[Len(DEFAULT_SCENARIOS)]
                                                    .assumptions)],
                                    "what_if", res.val), d)
             ELSE Fail(r, "what_if", run[r].outputs, <<res.err>>, d)

WhatIf(r) ==
    /\ AtStage(r, "what_if")
    /\ \E d \in 0..MaxClock :
          Stage(r, "what_if",
                run_what_if(run[r].outputs.normalize, run[r].outputs.derive,
                            run[r].outputs.monte_carlo, request.seed,
                            DEFAULT_SCENARIOS), d)

Recommend(r) ==
    /\ AtStage(r, "recommend")
    /\ \E d \in 0..MaxClock :
          Stage(r, "recommend",
                [ok |-> TRUE, err |-> "",
                 val |-> build_recommendations(run[r].outputs.normalize,
                                               run[r].outputs.monte_carlo, 6)], d)

Tables(r) ==
    /\ AtStage(r, "tables")
    /\ \E d \in 0..MaxClock :
          Stage(r, "tables",
                [ok |-> TRUE, err |-> "",
                 val |-> generate_tables(run[r].outputs.normalize,
                                         run[r].outputs.derive,
                                         run[r].outputs.monte_carlo,
                                         run[r].outputs.backtest)], d)

Charts(r) ==
    /\ AtStage(r, "charts")
    /\ \E d \in 0..MaxClock :
          Stage(r, "charts",
                [ok |-> TRUE, err |-> "",
                 val |-> generate_chart_specs(run[r].outputs.normalize,
                                              run[r].outputs.derive,
                                              run[r].outputs.monte_carlo,
                                              run[r].outputs.backtest)], d)

\* After the loop: completed_at is read and the PipelineResult is returned.
Finish(r) ==
    /\ run[r].pc = "finish"
    /\ run' = [run EXCEPT ![r] = [@ EXCEPT !.pc = "done", !.completed_at = now]]
    /\ UNCHANGED <<request, schema, now, sim, services>>

\* One invocation of run_pipeline.
RunStep(r) ==
    \/ Start(r)
    \/ Skip(r)
    \/ Validate(r)
    \/ Normalize(r)
    \/ Derive(r)
    \/ MonteCarlo(r)
    \/ Backtest(r)
    \/ WhatIf(r)
    \/ Recommend(r)
    \/ Tables(r)
    \/ Charts(r)
    \/ Finish(r)

Next == RunStep(1)

Spec == Init /\ [][Next]_vars

\* ------------------------------------------------ two runs, one after other

\* run_pipeline never awaits, so an invocation runs to its return before the
\* next one starts.
TwoRunsInit ==
    /\ request \in {req \in Requests :
                       req.stages \in {InOrder(PipelineStage),
                                       InOrder({"validate", "normalize"}),
                                       InOrder({"derive"})}}
    /\ schema \in {sc \in Schemas :
                      /\ sc.retirement_balance = BaseSchema.retirement_balance
                      /\ sc.retirement_monthly_real
                           = BaseSchema.retirement_monthly_real
                      /\ sc.birth_year = BaseSchema.birth_year}
    /\ run = [r \in Runs |-> IdleRun]
    /\ now = 0
    /\ sim = IdleSim
    /\ ServicesIdle

TwoRunsNext ==
    \/ RunStep(1)
    \/ (run[1].pc = "done" /\ RunStep(2))

SpecTwoRuns == TwoRunsInit /\ [][TwoRunsNext]_vars

\* --------------------------------------------------- two runs at once

\* Two invocations of run_pipeline on the same request and plan whose stages
\* interleave in any order (two threads, or two event loops).
\* Requests for the computing stages up to what_if, for validate and
\* backtest on their own, and for the three presentation stages.
ConcurrentRequests ==
    [stages : {<<"normalize", "derive", "monte_carlo", "what_if">>,
               <<"validate", "backtest">>,
               <<"recommend", "tables", "charts">>},
     seed : Seeds]

ConcurrentInit ==
    /\ request \in ConcurrentRequests
    /\ schema \in {BaseSchema,
                   [BaseSchema EXCEPT !.retirement_window = Window(66, 65)]}
    /\ run = [r \in Runs |-> IdleRun]
    /\ now = 0
    /\ sim = IdleSim
    /\ ServicesIdle

ConcurrentNext ==
    \/ RunStep(1)
    \/ RunStep(2)

SpecConcurrent == ConcurrentInit /\ [][ConcurrentNext]_vars

\* ---------------------------------------------- plans of many shapes

\* Plan snapshots that differ in the fields normalize_inputs reads for the
\* start age and the savings rate: birth year, retirement window, employee
\* contribution, employer match and the legacy savings rate.
PlanSchemas ==
    {[BaseSchema EXCEPT !.birth_year = by, !.retirement_window = rw,
                        !.employee_contribution_percent = employee,
                        !.employer_match_percent = employer,
                        !.savings_rate_percent = legacy] :
        by \in {None, Some(1956), Some(1962), Some(1970)},
        rw \in {NoWindow, Window(65, 66), Window(62, 63)},
        employee \in {None, Some(0), Some(5)},
        employer \in {None, Some(0), Some(4)},
        legacy \in {None, Some(8)}}

\* Requests for the stages up to derive, with and without validate.
PlanRequests ==
    [stages : {<<"normalize", "derive">>, <<"validate", "normalize", "derive">>},
     seed : Seeds]

PlansInit ==
    /\ request \in PlanRequests
    /\ schema \in PlanSchemas
    /\ run = [r \in Runs |-> IdleRun]
    /\ now = 0
    /\ sim = IdleSim
    /\ ServicesIdle

\* One invocation of run_pipeline whose request stops at derive: the later
\* stages are skipped.
PlansNext ==
    \/ Start(1)
    \/ Skip(1)
    \/ Validate(1)
    \/ Normalize(1)
    \/ Derive(1)
    \/ Finish(1)

SpecPlans == PlansInit /\ [][PlansNext]_vars

\* ------------------------------------------------ claiming preferences

\* Plan snapshots that differ in the Social Security fields: the claiming
\* preference (absent, below 62, 67 to 70, above 70) and the two monthly
\* reference amounts (absent, equal, rising, falling).
ClaimingSchemas ==
    {[BaseSchema EXCEPT !.claiming_preference = pref,
                        !.combined_at_67_monthly = ss[1],
                        !.combined_at_70_monthly = ss[2],
                        !.retirement_window = rw] :
        pref \in {None, Some(60), Some(67), Some(68), Some(69), Some(70), Some(72)},
        ss \in {<<None, None>>, <<Some(Dollars(100)), Some(Dollars(130))>>,
                <<Some(Dollars(100)), Some(Dollars(100))>>,
                <<Some(Dollars(130)), Some(Dollars(100))>>,
                <<Some(Dollars(100)), None>>},
        rw \in {NoWindow, Window(65, 66)}}

\* Requests for the stages that compute the benefit at the claiming age.
ClaimingRequests ==
    [stages : {<<"normalize", "derive", "monte_carlo", "backtest">>,
               <<"normalize", "monte_carlo", "backtest">>},
     seed : Seeds]

ClaimingInit ==
    /\ request \in ClaimingRequests
    /\ schema \in ClaimingSchemas
    /\ run = [r \in Runs |-> IdleRun]
    /\ now = 0
    /\ sim = IdleSim
    /\ ServicesIdle

\* One invocation of run_pipeline whose request stops at backtest.
ClaimingNext ==
    \/ Start(1)
    \/ Skip(1)
    \/ Normalize(1)
    \/ Derive(1)
    \/ MonteCarlo(1)
    \/ Backtest(1)
    \/ Finish(1)

SpecClaiming == ClaimingInit /\ [][ClaimingNext]_vars

\* ------------------------------------- recommendations on simulated plans

\* Plan snapshots that differ in the success target, the retirement window
\* (three ages, two, one) and the money at stake.
RecommendSchemas ==
    {[BaseSchema EXCEPT !.required_success_rate = target,
                        !.retirement_window = rw,
                        !.horizon_age = Some(h),
                        !.retirement_balance = Some(money[1]),
                        !.retirement_monthly_real = Some(money[2]),
                        !.savings_rate_percent = Some(rate)] :
        target \in {Some(5000), Some(9500), Some(10000)},
        rw \in {NoWindow, Window(65, 66), Window(65, 65)},
        h \in {66, 68},
        money \in {<<Dollars(12000), Dollars(300)>>, <<Dollars(12000), 0>>,
                   <<0, Dollars(300)>>, <<Dollars(3000), Dollars(300)>>},
        rate \in {8, 12}}

\* Requests that end with the recommendations.
RecommendRequests ==
    [stages : {<<"normalize", "monte_carlo", "recommend">>,
               <<"normalize", "recommend">>},
     seed : Seeds]

RecommendInit ==
    /\ request \in RecommendRequests
    /\ schema \in RecommendSchemas
    /\ run = [r \in Runs |-> IdleRun]
    /\ now = 0
    /\ sim = IdleSim
    /\ ServicesIdle

RecommendNext ==
    \/ Start(1)
    \/ Skip(1)
    \/ Normalize(1)
    \/ MonteCarlo(1)
    \/ Recommend(1)
    \/ Finish(1)

SpecRecommend == RecommendInit /\ [][RecommendNext]_vars

\* ------------------------------------------------------- the year loops

\* The annual returns of a path: pattern repeated to n years.
returns_of(pattern, n) == [y \in 1..n |-> pattern[((y - 1) % Len(pattern)) + 1]]

\* Return patterns (permille): the mean, a crash and a rebound, a flat year
\* and a loss of more than the whole balance, a -9.5 sigma draw every year,
\* a total loss followed by a gain, and a loss of half every year.
ReturnPatterns ==
    {<<55>>, <<-370, 275>>, <<0, -1500>>, <<-1045>>, <<-1000, 200>>, <<-500>>}

\* A simulation of _simulate_retirement_age about to enter its year loop:
\* balance = np.full(simulation_count, start_balance), failed all False, and
\* draws holding what the generators drew (drawn), stressed by the scenario.
McStarts ==
    {[kind |-> "monte_carlo", year |-> 0, retirement_age |-> 65,
      start_balance |-> b, monthly_spending |-> spend[1], ss_annual |-> spend[2],
      legacy_floor |-> floor, annual_returns_real |-> <<>>,
      scenario |-> sc,
      drawn |-> [i \in 1..SimulationCount |-> returns_of(pat[i], years)],
      draws |-> [i \in 1..SimulationCount |->
                    IF sc = NoScenario THEN returns_of(pat[i], years)
                    ELSE scenario_stress(sc, returns_of(pat[i], years))],
      paths |-> [i \in 1..SimulationCount |->
                    [balance |-> b, failed |-> FALSE]],
      history |-> [i \in 1..SimulationCount |-> <<>>],
      done |-> FALSE] :
        b \in {Dollars(1000), Dollars(3000)},
        spend \in {<<Dollars(100), 0>>, <<Dollars(100), Dollars(2000)>>},
        floor \in {0, Dollars(1000)},
        years \in 1..MaxYears,
        sc \in {NoScenario} \cup {sensitivity_scenarios[n] :
                                    n \in 1..Len(sensitivity_scenarios)},
        pat \in [1..SimulationCount -> ReturnPatterns]}

\* A replay of simulate_period_outcome about to enter its year loop; the
\* period's returns cover all the years or all but the last.
BtStarts ==
    {[kind |-> "backtest", year |-> 0, retirement_age |-> 65,
      start_balance |-> b, monthly_spending |-> spend[1], ss_annual |-> spend[2],
      legacy_floor |-> floor, scenario |-> NoScenario, drawn |-> <<>>,
      annual_returns_real |-> returns_of(pat, years - missing),
      draws |-> <<modeled_returns_of(returns_of(pat, years - missing), years,
                                     55)>>,
      paths |-> <<[balance |-> b, depleted |-> FALSE, depletion_age |-> None]>>,
      history |-> << <<>> >>,
      done |-> FALSE] :
        b \in {Dollars(1000), Dollars(3000)},
        spend \in {<<Dollars(100), 0>>, <<Dollars(100), Dollars(2000)>>},
        floor \in {0, Dollars(1000)},
        years \in 1..MaxYears,
        missing \in {0, 1},
        pat \in ReturnPatterns}

PathsInit ==
    /\ request = [stages |-> <<>>, seed |-> 42]
    /\ schema = BaseSchema
    /\ run = [r \in Runs |-> IdleRun]
    /\ now = 0
    /\ sim \in McStarts \cup BtStarts
    /\ ServicesIdle

\* One pass of the loop `for i in range(years)` of _simulate_retirement_age:
\* every path takes year i.
McYear ==
    /\ sim.kind = "monte_carlo"
    /\ sim.year < Len(sim.draws[1])
    /\ LET withdrawal == Max(sim.monthly_spending * 12 - sim.ss_annual, 0)
           after == [i \in 1..Len(sim.paths) |->
                        mc_year(sim.paths[i], withdrawal,
                                sim.draws[i][sim.year + 1])]
       IN  sim' = [sim EXCEPT
                      !.year = @ + 1,
                      !.paths = after,
                      !.history = [i \in 1..Len(sim.paths) |->
                                      Append(sim.history[i], after[i])]]
    /\ UNCHANGED <<request, schema, run, now, services>>

\* After the loop: the result dict is built.
McFinish ==
    /\ sim.kind = "monte_carlo"
    /\ sim.year = Len(sim.draws[1])
    /\ ~sim.done
    /\ sim' = [sim EXCEPT !.done = TRUE]
    /\ UNCHANGED <<request, schema, run, now, services>>

\* One pass of the loop over modeled_returns of simulate_period_outcome.
BtYear ==
    /\ sim.kind = "backtest"
    /\ sim.year < Len(sim.draws[1])
    /\ LET after == bt_year(sim.paths[1], sim.year, sim.retirement_age,
                            sim.monthly_spending * 12, sim.ss_annual,
                            sim.draws[1][sim.year + 1])
       IN  sim' = [sim EXCEPT
                      !.year = @ + 1,
                      !.paths = <<after>>,
                      !.history = <<Append(sim.history[1], after)>>]
    /\ UNCHANGED <<request, schema, run, now, services>>

\* After the loop: the outcome dict is built.
BtFinish ==
    /\ sim.kind = "backtest"
    /\ sim.year = Len(sim.draws[1])
    /\ ~sim.done
    /\ sim' = [sim EXCEPT !.done = TRUE]
    /\ UNCHANGED <<request, schema, run, now, services>>

\* The dict a finished simulation returns.
sim_result ==
    IF sim.kind = "monte_carlo"
    THEN mc_summary(sim.retirement_age,
                    IF sim.scenario = NoScenario THEN "base" ELSE sim.scenario,
                    sim.start_balance, sim.year,
                    sim.paths, sim.legacy_floor)
    ELSE bt_outcome(sim.paths[1], sim.annual_returns_real, sim.year,
                    sim.legacy_floor)

PathsNext == McYear \/ McFinish \/ BtYear \/ BtFinish

SpecPaths == PathsInit /\ [][PathsNext]_vars

\* ------------------------------------------------- properties of the runner

\* What the stage function of key returns or raises, called on outputs.
stage_call(key, outputs) ==
    CASE key = "normalize" -> normalize_inputs(schema)
      [] key = "derive" -> compute_derived_fields(outputs.normalize)
      [] key = "monte_carlo" ->
            run_monte_carlo(outputs.normalize, outputs.derive, request.seed)
      [] key = "backtest" ->
            run_backtest(outputs.normalize, outputs.derive, outputs.monte_carlo)
      [] key = "what_if" ->
            run_what_if(outputs.normalize, outputs.derive, outputs.monte_carlo,
                        request.seed, DEFAULT_SCENARIOS)
      [] OTHER -> [ok |-> TRUE, err |-> ""]

\* The stage's place in the fixed sequence.
stage_index(key) == CHOOSE k \in 1..Len(stage_sequence) : stage_sequence[k] = key

\* The loop of invocation r has been left.
Halted(r) == run[r].pc \in {"finish", "done"}

\* C1: when a requested stage other than validate raises, its StageResult is
\* 'failed' with errors exactly [str(exception)], it is the last StageResult,
\* the loop has been left, and no later stage was executed or recorded.
\* (StageResults are only appended, so the stage that ran last is the last
\* StageResult, and a failed StageResult never has one after it.)
C1_StageExceptionHalts ==
    LET rec == run[1]
        n == Len(rec.results)
        sr == rec.results[n]
    IN  /\ \A k \in 1..(n - 1) : rec.results[k].status # "failed"
        /\ (n > 0 /\ sr.stage # "validate" /\ sr.status # "skipped")
             => LET res == stage_call(sr.stage, rec.outputs)
                IN  IF res.ok THEN sr.status = "success"
                    ELSE /\ sr.status = "failed"
                         /\ sr.errors = <<res.err>>
                         /\ Halted(1)
                         /\ rec.executed[Len(rec.executed)] = sr.stage
                         /\ sr.stage \notin rec.outputs.keys

\* C1 happens: a run has returned whose last StageResult is the failure of a
\* raising stage that has later stages after it.
C1_Witness ==
    LET rec == run[1]
        n == Len(rec.results)
    IN  /\ rec.pc = "done"
        /\ n > 0 /\ n < Len(stage_sequence)
        /\ rec.results[n].stage # "validate"
        /\ rec.results[n].status = "failed"
        /\ ~stage_call(rec.results[n].stage, rec.outputs).ok

\* C2: when validate is requested and validate_schema reports errors, the
\* validate StageResult is 'failed' with those errors and is the only
\* StageResult, no computation stage is executed, and the PipelineOutputs
\* hold no derived fields, Monte Carlo, backtest or what-if results and no
\* recommendations.
C2_ValidationErrorsHalt ==
    LET rec == run[1]
        validation == validate_schema(schema)
    IN  ("validate" \in requested_of(request) /\ Len(validation.errors) > 0
           /\ rec.results # <<>>)
          => /\ Halted(1)
             /\ Len(rec.results) = 1
             /\ rec.results[1].stage = "validate"
             /\ rec.results[1].status = "failed"
             /\ rec.results[1].errors = validation.errors
             /\ rec.executed = <<"validate">>
             /\ LET out == PipelineResult(rec).outputs
                IN  /\ ~out.derived_fields.present
                    /\ ~out.monte_carlo_results.present
                    /\ ~out.backtest_results.present
                    /\ ~out.what_if_results.present
                    /\ out.recommendations = <<>>

\* C2 happens: a run that requested validate and later stages has returned
\* on a plan that validate_schema rejects.
C2_Witness ==
    /\ run[1].pc = "done"
    /\ {"validate", "normalize", "monte_carlo"} \subseteq requested_of(request)
    /\ Len(validate_schema(schema).errors) > 1
    /\ run[1].results[1].status = "failed"

\* C3 as stated: in every returned PipelineResult every stage that was not
\* requested has a 'skipped' StageResult and was not executed.
C3_EveryUnrequestedStageSkipped ==
    run[1].pc = "done"
      => \A key \in PipelineStage \ requested_of(request) :
            /\ key \notin {run[1].executed[k] : k \in 1..Len(run[1].executed)}
            /\ \E k \in 1..Len(run[1].results) :
                  run[1].results[k] = StageResult(key, "skipped", 0, <<>>)

\* C3 amended: in every returned PipelineResult no stage that was not
\* requested was executed; each one the loop reached has a 'skipped'
\* StageResult, and the loop reaches every stage unless a stage failed, in
\* which case the stages after the failed one have no StageResult.
C3_UnrequestedSkippedUntilHalt ==
    LET rec == run[1]
        n == Len(rec.results)
    IN  rec.pc = "done"
          => /\ \A key \in PipelineStage \ requested_of(request) :
                   /\ key \notin {rec.executed[k] : k \in 1..Len(rec.executed)}
                   /\ stage_index(key) <= n
                        => rec.results[stage_index(key)]
                             = StageResult(key, "skipped", 0, <<>>)
                   /\ stage_index(key) > n
                        => /\ rec.results[n].status = "failed"
                           /\ \A k \in 1..n : rec.results[k].stage # key
             /\ n = Len(stage_sequence)
                  \/ (n > 0 /\ rec.results[n].status = "failed")

\* C3 amended happens: a returned run skipped a stage before the failed one
\* and has no StageResult for a stage that was not requested after it.
C3_Witness ==
    LET rec == run[1]
        n == Len(rec.results)
    IN  /\ rec.pc = "done"
        /\ n > 1 /\ n < Len(stage_sequence)
        /\ rec.results[1].status = "skipped"
        /\ rec.results[n].status = "failed"
        /\ \E key \in PipelineStage \ requested_of(request) : stage_index(key) > n

\* C4: stages execute in the fixed order whatever the order or repetition of
\* request.stages: each requested stage runs at most once, and the
\* StageResult list is a prefix of the fixed sequence.
C4_FixedOrderAtMostOnce ==
    LET rec == run[1]
    IN  /\ \A k \in 1..Len(rec.results) :
              k <= Len(stage_sequence) /\ rec.results[k].stage = stage_sequence[k]
        /\ \A i, j \in 1..Len(rec.executed) :
              i < j => stage_index(rec.executed[i]) < stage_index(rec.executed[j])
        /\ \A i \in 1..Len(rec.executed) : rec.executed[i] \in requested_of(request)
        /\ rec.executed =
              SelectSeq(SubSeq(stage_sequence, 1, Len(rec.results)),
                        LAMBDA key : key \in requested_of(request))

\* C4 happens: a run whose request lists the stages in reverse order, one of
\* them twice, has executed all nine.
C4_Witness ==
    /\ run[1].pc = "done"
    /\ Len(request.stages) > Len(stage_sequence)
    /\ request.stages[1] = "charts"
    /\ Len(run[1].executed) = Len(stage_sequence)

\* The plan has non-positive simulated years at the recommended retirement
\* age: longevity_age <= recommended_retirement_age.
NonPositiveYears(outputs) ==
    /\ "monte_carlo" \in outputs.keys
    /\ outputs.normalize.longevity_age
         <= outputs.monte_carlo.assessment.recommended_retirement_age

\* C5: with all stages requested and validation passing, a plan with
\* non-positive simulated years makes no stage fail: monte_carlo, backtest
\* and every later stage end with status 'success'.
C5_NonPositiveYearsNoFailure ==
    LET rec == run[1]
    IN  (rec.pc = "done" /\ requested_of(request) = PipelineStage
           /\ validate_schema(schema).valid /\ NonPositiveYears(rec.outputs))
          => /\ Len(rec.results) = Len(stage_sequence)
             /\ \A k \in 1..Len(rec.results) : rec.results[k].status = "success"

\* -------------------------------------------------- properties of two runs

\* The StageResult list without the durations.
Outcomes(results) ==
    [k \in 1..Len(results) |->
        [stage |-> results[k].stage, status |-> results[k].status,
         errors |-> results[k].errors]]

BothReturned == run[1].pc = "done" /\ run[2].pc = "done"

\* C6 as stated: two runs with the same request and the same plan snapshot
\* return PipelineResult values identical in every field.
C6_RunsIdenticalInEveryField ==
    BothReturned => PipelineResult(run[1]) = PipelineResult(run[2])

\* C6 amended: two runs with the same request and the same plan snapshot
\* return the same outputs and the same stage, status and errors for every
\* StageResult; pipeline_id, started_at, completed_at and the durations are
\* each run's own.
C6_RunsAgreeOnOutcome ==
    BothReturned
      => /\ PipelineResult(run[1]).outputs = PipelineResult(run[2]).outputs
         /\ Outcomes(PipelineResult(run[1]).stages)
              = Outcomes(PipelineResult(run[2]).stages)

\* C6 amended happens: two runs of all nine stages have returned Monte Carlo
\* results, with different ids, start times and durations.
C6_Witness ==
    /\ BothReturned
    /\ run[1].outputs.monte_carlo.present
    /\ Len(run[1].results) = Len(stage_sequence)
    /\ run[1].pipeline_id # run[2].pipeline_id
    /\ run[1].started_at # run[2].started_at
    /\ run[1].results # run[2].results

\* ----------------------------------------------- properties of monte_carlo

\* C7: within one run_monte_carlo call no two (retirement age, scenario)
\* combinations draw from generators with the same seed.
C7_NoSharedSeed ==
    "monte_carlo" \in run[1].outputs.keys
      => LET use == mc_seed_use(run[1].outputs.normalize, request.seed)
         IN  \A c1, c2 \in DOMAIN use : c1 # c2 => use[c1] \cap use[c2] = {}

\* The path was marked failed (monte_carlo) or depleted (backtest).
Marked(p) == IF sim.kind = "monte_carlo" THEN p.failed ELSE p.depleted

\* C8: in every simulated path, once the balance after a year is <= 0 the
\* path is marked failed and the balance is 0 in every later year, whatever
\* returns follow.
C8_DepletedStaysZero ==
    \A i \in 1..Len(sim.history) :
       \A y \in 1..Len(sim.history[i]) :
          sim.history[i][y].balance <= 0
            => /\ Marked(sim.history[i][y])
               /\ \A z \in y..Len(sim.history[i]) : sim.history[i][z].balance = 0

\* The paths of the finished simulation that were never marked failed in any
\* year and ended at or above the legacy floor.
SucceededPaths ==
    {i \in 1..Len(sim.paths) :
        /\ \A y \in 1..Len(sim.history[i]) : ~sim.history[i][y].failed
        /\ sim.paths[i].balance >= sim.legacy_floor}

\* C9: a Monte Carlo path is a success iff it was never marked failed in any
\* year and its terminal balance is >= legacy_floor; success_probability is
\* the number of such paths over simulation_count, rounded to 4 decimals.
C9_SuccessProbability ==
    (sim.kind = "monte_carlo" /\ sim.done)
      => /\ \A i \in 1..Len(sim.paths) :
               path_success(sim.paths[i], sim.legacy_floor)
                 <=> i \in SucceededPaths
         /\ sim_result.success_probability
              = RoundHalfEven(Cardinality(SucceededPaths) * 10000,
                              Len(sim.paths))

\* C9 happens: a finished simulation has a path that succeeded, and a path
\* that never failed but ended below a positive legacy floor.
C9_Witness ==
    /\ sim.kind = "monte_carlo" /\ sim.done
    /\ SucceededPaths # {}
    /\ \E i \in 1..Len(sim.paths) :
          /\ i \notin SucceededPaths
          /\ \A y \in 1..Len(sim.history[i]) : sim.history[i][y].balance > 0
    /\ sim_result.success_probability \notin {0, 10000}

\* Every result of run_monte_carlo: base_results and each sensitivity list.
AllMcResults(mc) ==
    {mc.base_results[k] : k \in 1..Len(mc.base_results)}
      \cup UNION {{mc.sensitivity_results[sc][k] :
                      k \in 1..Len(mc.sensitivity_results[sc])} :
                  sc \in DOMAIN mc.sensitivity_results}

OrderedPercentiles(res) ==
    res.p05 <= res.p25 /\ res.p25 <= res.p50 /\ res.p50 <= res.p75
      /\ res.p75 <= res.p95

\* C10 as stated: every result of run_monte_carlo has success_probability in
\* [0, 1] and carries a terminal-balance percentile set, ordered.
C10_EveryResultHasPercentiles ==
    \A res \in AllMcResults(run[1].outputs.monte_carlo) :
       /\ 0 <= res.success_probability /\ res.success_probability <= 10000
       /\ res.has_percentiles
       /\ OrderedPercentiles(res)

\* C10 amended: every result of run_monte_carlo has success_probability in
\* [0, 1]; a result with at least one simulated year carries a percentile set
\* with p05 <= p25 <= p50 <= p75 <= p95, and a result with no simulated year
\* (longevity_age <= retirement_age) has probability 0 and no percentile set.
C10_SimulatedResultsHavePercentiles ==
    \A res \in AllMcResults(run[1].outputs.monte_carlo) :
       /\ 0 <= res.success_probability /\ res.success_probability <= 10000
       /\ res.years_simulated > 0
            => res.has_percentiles /\ OrderedPercentiles(res)
       /\ res.years_simulated <= 0
            => ~res.has_percentiles /\ res.success_probability = 0

\* C10 amended happens: run_monte_carlo has returned results with simulated
\* years, whose percentiles are not all equal, next to results without.
C10_Witness ==
    LET all == AllMcResults(run[1].outputs.monte_carlo)
    IN  /\ "monte_carlo" \in run[1].outputs.keys
        /\ \E res \in all : res.years_simulated > 0 /\ res.p05 < res.p95
        /\ \E res \in all : res.years_simulated = 0

\* C11: for every retirement age a with longevity_age <= a, the Monte Carlo
\* simulation of that age, in the base run and in every scenario, returns
\* without raising a result with success_probability 0 and years_simulated
\* 0, no year having been simulated.
C11_NoYearsTrivialResult ==
    LET rec == run[1]
        inputs == rec.outputs.normalize
    IN  /\ \A k \in 1..Len(rec.results) :
              (rec.results[k].stage = "monte_carlo" /\ inputs.present
                 /\ rec.results[k].status # "skipped")
                => rec.results[k].status = "success"
        /\ \A res \in AllMcResults(rec.outputs.monte_carlo) :
              inputs.longevity_age <= res.retirement_age
                => /\ res.success_probability = 0
                   /\ res.years_simulated = 0
                   /\ ~res.has_percentiles

\* C11 happens: run_monte_carlo has returned a stress-scenario result for an
\* age at the longevity horizon, next to results with simulated years.
C11_Witness ==
    LET inputs == run[1].outputs.normalize
        all == AllMcResults(run[1].outputs.monte_carlo)
    IN  /\ "monte_carlo" \in run[1].outputs.keys
        /\ \E res \in all : /\ inputs.longevity_age = res.retirement_age
                            /\ res.scenario # "base"
        /\ \E res \in all : res.years_simulated > 0

\* The cap and the number of stressed years of a scenario.
StressCap(sc) == IF sc = "poor_sequence_first_3_years" THEN -150 ELSE -100

StressYears(sc) == IF sc = "poor_sequence_first_3_years" THEN 3 ELSE 2

\* C12: in scenario poor_sequence_first_3_years every path's return in each
\* of the first min(3, years) years is <= -15% (the drawn return if that is
\* lower, else -15%), in delayed_market_recovery every path's return in each
\* of the first min(2, years) years is <= -10%, and the returns of all later
\* years are exactly as drawn.
C12_StressedEarlyYears ==
    (sim.kind = "monte_carlo" /\ sim.scenario # NoScenario)
      => \A i \in 1..Len(sim.draws) :
            /\ Len(sim.draws[i]) = Len(sim.drawn[i])
            /\ \A y \in 1..Len(sim.draws[i]) :
                  IF y <= StressYears(sim.scenario)
                  THEN /\ sim.draws[i][y] <= StressCap(sim.scenario)
                       /\ sim.draws[i][y] <= sim.drawn[i][y]
                       /\ sim.draws[i][y] \in {sim.drawn[i][y],
                                               StressCap(sim.scenario)}
                  ELSE sim.draws[i][y] = sim.drawn[i][y]

\* C12 happens: a stressed simulation has run all its years, with a path
\* whose drawn returns were above the cap in a stressed year, below it in
\* another, and above it in a later year left as drawn.
C12_Witness ==
    /\ sim.kind = "monte_carlo" /\ sim.done
    /\ sim.scenario = "delayed_market_recovery"
    /\ \E i \in 1..Len(sim.draws) :
          /\ Len(sim.draws[i]) > 2
          /\ sim.drawn[i][1] < -100 /\ sim.draws[i][1] = sim.drawn[i][1]
          /\ sim.drawn[i][2] > -100 /\ sim.draws[i][2] = -100
          /\ \E y \in 3..Len(sim.draws[i]) : sim.draws[i][y] > -100

\* C13: the recommended_retirement_age of a Monte Carlo output is the age of
\* one of its base_results, no base result has a higher success_probability
\* than that one, and every base result with the same success_probability
\* has an age no higher.
C13_RecommendedAge ==
    LET mc == run[1].outputs.monte_carlo
        rec_age == mc.assessment.recommended_retirement_age
    IN  mc.present
          => \E i \in 1..Len(mc.base_results) :
                /\ mc.base_results[i].retirement_age = rec_age
                /\ \A j \in 1..Len(mc.base_results) :
                      /\ mc.base_results[j].success_probability
                           <= mc.base_results[i].success_probability
                      /\ (mc.base_results[j].success_probability
                            = mc.base_results[i].success_probability)
                           => mc.base_results[j].retirement_age <= rec_age

\* C13 happens: two base results tie at the highest success probability, one
\* other result lies below it, and the recommendation is the older of the two.
C13_Witness ==
    LET mc == run[1].outputs.monte_carlo
        rec_age == mc.assessment.recommended_retirement_age
    IN  /\ mc.present
        /\ \E i, j, k \in 1..Len(mc.base_results) :
              /\ mc.base_results[i].retirement_age < rec_age
              /\ mc.base_results[j].retirement_age = rec_age
              /\ mc.base_results[i].success_probability
                   = mc.base_results[j].success_probability
              /\ mc.base_results[k].success_probability
                   < mc.base_results[j].success_probability

\* A finished replay whose returns were -50% in every simulated year, the
\* period being at least as long as the simulated years.
HalvedEveryYear ==
    /\ sim.kind = "backtest" /\ sim.done
    /\ sim.year >= 1
    /\ Len(sim.annual_returns_real) >= sim.year
    /\ \A y \in 1..sim.year : sim.draws[1][y] = -500

RECURSIVE Pow2(_)
Pow2(n) == IF n <= 0 THEN 1 ELSE 2 * Pow2(n - 1)

\* C14 as stated: a replay of -50% in every simulated year returns
\* success = False and a depletion_age, whatever the start balance, the
\* spending, the Social Security benefit and the legacy floor.
C14_HalvingAlwaysDepletes ==
    HalvedEveryYear
      => /\ ~sim_result.success
         /\ sim_result.depletion_age # None

\* C14: a replay of -50% in every one of its n simulated years returns
\* success = False and a depletion_age exactly when the start balance is at
\* most (2^n - 1) times the yearly net withdrawal max(12 * monthly spending
\* - Social Security, 0); otherwise depletion_age is null and success tells
\* whether the terminal balance reaches the legacy floor.
C14_HalvingDepletesWhenWithdrawn ==
    HalvedEveryYear
      => LET withdrawal == Max(sim.monthly_spending * 12 - sim.ss_annual, 0)
         IN  IF sim.start_balance <= (Pow2(sim.year) - 1) * withdrawal
             THEN /\ ~sim_result.success
                  /\ sim_result.depletion_age # None
                  /\ sim_result.depletion_age.v \in
                        sim.retirement_age..(sim.retirement_age + sim.year - 1)
             ELSE /\ sim_result.depletion_age = None
                  /\ sim_result.success
                       <=> sim.paths[1].balance >= sim.legacy_floor
                  /\ sim.paths[1].balance > 0

\* C14 happens: a halved replay of several years that was depleted after its
\* first year, and (in another behaviour) one that withdrew nothing.
C14_Witness ==
    /\ HalvedEveryYear
    /\ sim.year >= 2
    /\ Max(sim.monthly_spending * 12 - sim.ss_annual, 0) > 0
    /\ sim_result.depletion_age = Some(sim.retirement_age + 1)

\* The comparison of the scenario called name in a what-if output.
ComparisonOf(what_if, name) ==
    {what_if.scenario_comparisons[k] :
        k \in {j \in 1..Len(what_if.scenario_comparisons) :
                  what_if.scenario_comparisons[j].name = name}}

\* C15: run_what_if gives each named scenario the same comparison whatever
\* its position in the scenarios list: called on the same inputs, baseline
\* and seed with the list reversed, every scenario's comparison (recommended
\* age, success probability and terminal p50 at the baseline age, both
\* deltas) is the one it got in the original order.
C15_OrderIndependent ==
    LET rec == run[1]
    IN  "what_if" \in rec.outputs.keys
          => LET reversed == run_what_if(rec.outputs.normalize, rec.outputs.derive,
                                         rec.outputs.monte_carlo, request.seed,
                                         Reverse(DEFAULT_SCENARIOS)).val
             IN  \A k \in 1..Len(DEFAULT_SCENARIOS) :
                    ComparisonOf(reversed, DEFAULT_SCENARIOS[k].name)
                      = ComparisonOf(rec.outputs.what_if, DEFAULT_SCENARIOS[k].name)

\* The Monte Carlo results run_what_if computes for scenario number idx.
scenario_mc_of(inputs, seed, idx) ==
    LET mod_inputs == mod_inputs_of(inputs, DEFAULT_SCENARIOS[idx].assumptions)
    IN  run_monte_carlo(mod_inputs, compute_derived_fields(mod_inputs).val,
                        seed + idx * 100).val

\* The positions of the results for age in a list of base results.
RowsAt(base_results, age) ==
    {k \in 1..Len(base_results) : base_results[k].retirement_age = age}

\* The comparison reports the result of scenario_base for baseline_age, or
\* the first result of scenario_base when there is none for that age.
ComparedAt(comparison, scenario_base, baseline_age) ==
    LET at == RowsAt(scenario_base, baseline_age)
        k == IF at = {} THEN 1 ELSE CHOOSE j \in at : \A l \in at : j <= l
    IN  Len(scenario_base) > 0
          => /\ comparison.success_probability_at_baseline_age
                  = scenario_base[k].success_probability
             /\ comparison.terminal_p50_at_baseline_age
                  = Round2(p50_of(scenario_base[k]))

\* The run has just executed what_if on normalized inputs.
WhatIfJustRan ==
    LET rec == run[1]
        n == Len(rec.results)
    IN  /\ n > 0
        /\ rec.results[n].stage = "what_if"
        /\ rec.results[n].status # "skipped"
        /\ rec.outputs.normalize.present

\* C16: for each what-if scenario the reported success probability and
\* terminal p50 are those of the scenario's base result for the baseline
\* recommended age (not for the scenario's own recommended age), or those of
\* the scenario's first base result when the scenario has no result for that
\* age; run_what_if returns without raising.
C16_ComparedAtBaselineAge ==
    LET rec == run[1]
        baseline_age == recommended_age_or_67(rec.outputs.monte_carlo)
        comparisons == rec.outputs.what_if.scenario_comparisons
    IN  WhatIfJustRan
          => /\ rec.results[Len(rec.results)].status = "success"
             /\ Len(comparisons) = Len(DEFAULT_SCENARIOS)
             /\ \A idx \in 1..Len(comparisons) :
                   \A scenario_mc \in
                       {scenario_mc_of(rec.outputs.normalize, request.seed, idx)} :
                      ComparedAt(comparisons[idx], scenario_mc.base_results,
                                 baseline_age)

\* C16 happens: what_if has run, one scenario has a result for the baseline
\* age while recommending another age, and another scenario (the age-shifted
\* one) has results but none for the baseline age.
C16_Witness ==
    LET rec == run[1]
        baseline_age == recommended_age_or_67(rec.outputs.monte_carlo)
    IN  /\ WhatIfJustRan
        /\ rec.outputs.monte_carlo.present
        /\ \E idx \in 1..Len(DEFAULT_SCENARIOS) :
              \E scenario_mc \in
                  {scenario_mc_of(rec.outputs.normalize, request.seed, idx)} :
                 /\ RowsAt(scenario_mc.base_results, baseline_age) # {}
                 /\ recommended_age_or_67(scenario_mc) # baseline_age
        /\ \E idx \in 1..Len(DEFAULT_SCENARIOS) :
              \E scenario_mc \in
                  {scenario_mc_of(rec.outputs.normalize, request.seed, idx)} :
                 /\ Len(scenario_mc.base_results) > 0
                 /\ RowsAt(scenario_mc.base_results, baseline_age) = {}

\* C17: normalize_inputs returns a normalized record without raising for
\* every plan snapshot that conforms to the canonical schema: whenever the
\* run executes normalize, the stage succeeds and its output is present.
C17_NormalizeNeverRaises ==
    LET rec == run[1]
    IN  \A k \in 1..Len(rec.results) :
           (rec.results[k].stage = "normalize" /\ rec.results[k].status # "skipped")
             => /\ rec.results[k].status = "success"
                /\ rec.outputs.normalize.present

\* C18: every NormalizedInputs record produced by normalize_inputs has
\* longevity_age >= every age in retirement_ages.
C18_LongevityCoversRetirementAges ==
    LET inputs == run[1].outputs.normalize
    IN  inputs.present
          => \A k \in 1..Len(inputs.retirement_ages) :
                inputs.longevity_age >= inputs.retirement_ages[k]

\* C19: compute_derived_fields compounds the projected balance of each
\* candidate age a from the client's current age: starting from
\* current_balance, the recurrence balance = (balance + annual_contribution)
\* * (1 + annual_return) is applied once for every year between the current
\* age (2026 - birth year) and a.
C19_CompoundedFromCurrentAge ==
    LET rec == run[1]
        inputs == rec.outputs.normalize
        derived == rec.outputs.derive
        current_age == 2026 - schema.birth_year.v
        annual_contribution ==
            MulDivRound(inputs.gross_annual_income, inputs.savings_rate_percent, 100)
    IN  (derived.present /\ inputs.present /\ schema.birth_year.has)
          => \A a \in DOMAIN derived.projected_balances :
                derived.projected_balances[a]
                  = Round2(_projected_balance(inputs.current_balance,
                                              annual_contribution,
                                              inputs.return_mean,
                                              Max(a - current_age, 0)))

\* C20: normalize_inputs sets savings_rate_percent to
\* employee_contribution_percent + employer_match_percent when the employee
\* contribution is set and > 0, and otherwise to the legacy
\* savings_rate_percent field alone (0 if that is unset), whatever the
\* employer match is.
C20_SavingsRatePrecedence ==
    LET inputs == run[1].outputs.normalize
        employee == schema.employee_contribution_percent
        employer == schema.employer_match_percent
        legacy == schema.savings_rate_percent
    IN  inputs.present
          => IF employee.has /\ employee.v > 0
             THEN inputs.savings_rate_percent
                    = employee.v + (IF employer.has THEN employer.v ELSE 0)
             ELSE inputs.savings_rate_percent
                    = (IF legacy.has THEN legacy.v ELSE 0)

\* C20 happens: normalize has run on a plan with an employee contribution,
\* an employer match and a legacy rate that differs from their sum.
C20_Witness ==
    LET inputs == run[1].outputs.normalize
    IN  /\ inputs.present
        /\ schema.employee_contribution_percent = Some(5)
        /\ schema.employer_match_percent = Some(4)
        /\ schema.savings_rate_percent = Some(8)
        /\ inputs.savings_rate_percent = 9

\* The benefit at the claiming age as derive, run_monte_carlo and
\* run_backtest each compute it from the normalized inputs.
ClaimingBenefits(inputs) ==
    {derive_ss_claim_annual(inputs.social_security_claiming_age,
                            inputs.social_security_age_67_annual,
                            inputs.social_security_age_70_annual),
     mc_ss_annual(inputs.social_security_claiming_age,
                  inputs.social_security_age_67_annual,
                  inputs.social_security_age_70_annual),
     bt_ss_annual(inputs.social_security_claiming_age,
                  inputs.social_security_age_67_annual,
                  inputs.social_security_age_70_annual)}

\* The stages of the run that executed and succeeded.
Succeeded(rec) ==
    {rec.results[k].stage :
        k \in {j \in 1..Len(rec.results) : rec.results[j].status = "success"}}

\* C21 as stated: the benefit at the claiming age is the age-67 amount at
\* claiming age 67, the age-70 amount at 70, and at 68 or 69 a value
\* strictly between the two amounts.
C21_StrictlyBetween ==
    LET rec == run[1]
        inputs == rec.outputs.normalize
        lo == Min(inputs.social_security_age_67_annual,
                  inputs.social_security_age_70_annual)
        hi == Max(inputs.social_security_age_67_annual,
                  inputs.social_security_age_70_annual)
    IN  "backtest" \in Succeeded(rec)
          => \A b \in ClaimingBenefits(inputs) :
                /\ inputs.social_security_claiming_age = 67
                     => b = inputs.social_security_age_67_annual
                /\ inputs.social_security_claiming_age = 70
                     => b = inputs.social_security_age_70_annual
                /\ inputs.social_security_claiming_age \in {68, 69}
                     => lo < b /\ b < hi

\* C21: derive, Monte Carlo and backtest compute the same benefit at the
\* claiming age; it is the age-67 amount at claiming age 67 (or below), the
\* age-70 amount at 70, and at 68 or 69 the amount one or two thirds of the
\* way from the age-67 to the age-70 amount: strictly between the two when
\* they differ, and equal to both when they are equal. The derive output
\* reports that value.
C21_InterpolatedBenefit ==
    LET rec == run[1]
        inputs == rec.outputs.normalize
        age == inputs.social_security_claiming_age
        ss_67 == inputs.social_security_age_67_annual
        ss_70 == inputs.social_security_age_70_annual
    IN  "backtest" \in Succeeded(rec)
          => /\ Cardinality(ClaimingBenefits(inputs)) = 1
             /\ \A b \in ClaimingBenefits(inputs) :
                   /\ age <= 67 => b = ss_67
                   /\ age = 70 => b = ss_70
                   /\ age \in {68, 69}
                        => /\ 3 * (b - ss_67) = (age - 67) * (ss_70 - ss_67)
                           /\ ss_67 # ss_70
                                => Min(ss_67, ss_70) < b /\ b < Max(ss_67, ss_70)
                           /\ ss_67 = ss_70 => b = ss_67
                   /\ "derive" \in Succeeded(rec)
                        => rec.outputs.derive.social_security
                              .claiming_age_combined_annual = Round2(b)

\* C21 happens: derive, Monte Carlo and backtest have run on a plan claiming
\* at 69 with a higher amount at 70 than at 67.
C21_Witness ==
    LET rec == run[1]
        inputs == rec.outputs.normalize
    IN  /\ {"derive", "monte_carlo", "backtest"} \subseteq Succeeded(rec)
        /\ inputs.social_security_claiming_age = 69
        /\ inputs.social_security_age_67_annual
             < rec.outputs.derive.social_security.claiming_age_combined_annual
        /\ rec.outputs.derive.social_security.claiming_age_combined_annual
             < inputs.social_security_age_70_annual

\* The largest max_items the recommendation rules are tried with.
MaxItems == 4

\* The rule a rule_id belongs to, in the order the rules are evaluated.
RuleRank(rule_id) ==
    CASE rule_id \in {"REC_RETIREMENT_AGE_BUFFER", "REC_EARLIEST_AGE_MEETS_TARGET"} -> 1
      [] rule_id \in {"REC_STRESS_CONTINGENCY_REQUIRED",
                      "REC_STRESS_GUARDRAILS_MAINTAIN"} -> 2
      [] rule_id = "REC_INCREASE_SAVINGS_RATE" -> 3
      [] OTHER -> 0

\* The run has just executed recommend.
RecommendJustRan ==
    LET rec == run[1]
        n == Len(rec.results)
    IN  /\ n > 0
        /\ rec.results[n].stage = "recommend"
        /\ rec.results[n].status # "skipped"

\* C22: build_recommendations returns at most max_items recommendations (for
\* every max_items from 0 to MaxItems, and for the 6 the pipeline passes),
\* in the fixed rule order (retirement-age rule, stress-scenario rule,
\* savings-rate rule) with at most one recommendation per rule, and does not
\* raise on the Monte Carlo results of the run; called again on the same
\* inputs it returns the list the run holds.
C22_RecommendationsBoundedOrdered ==
    LET rec == run[1]
        inputs == rec.outputs.normalize
        mc == rec.outputs.monte_carlo
    IN  RecommendJustRan
          => /\ rec.results[Len(rec.results)].status = "success"
             /\ rec.outputs.recommend = build_recommendations(inputs, mc, 6)
             /\ \A m \in (0..MaxItems) \cup {6} :
                   \A recs \in {build_recommendations(inputs, mc, m)} :
                      /\ Len(recs) <= m
                      /\ \A k \in 1..Len(recs) :
                            /\ RuleRank(recs[k].rule_id) > 0
                            /\ recs[k] = rec.outputs.recommend[k]
                            /\ k > 1 => RuleRank(recs[k - 1].rule_id)
                                          < RuleRank(recs[k].rule_id)

\* C22 happens: recommend ran on Monte Carlo results, all three rules fired,
\* and max_items = 2 cuts the list.
C22_Witness ==
    LET rec == run[1]
    IN  /\ RecommendJustRan
        /\ rec.outputs.monte_carlo.present
        /\ Len(rec.outputs.recommend) = 3
        /\ Len(build_recommendations(rec.outputs.normalize,
                                     rec.outputs.monte_carlo, 2)) = 2

\* C23: no stage modifies what an earlier stage produced: every output the
\* run holds before a step (validation, normalized inputs, derived fields,
\* Monte Carlo results, ...) is the same after it; in particular what_if
\* leaves the normalized inputs and their retirement_ages as they were.
C23_EarlierOutputsKept ==
    [][\A k \in run[1].outputs.keys :
          /\ k \in run'[1].outputs.keys
          /\ run'[1].outputs[k] = run[1].outputs[k]]_vars

\* C23 happens: what_if has run its age-shifted scenario, which recommends
\* an age outside the baseline ages, and the normalized inputs still hold
\* the ages of the plan.
C23_Witness ==
    LET rec == run[1]
        inputs == rec.outputs.normalize
        comparisons == rec.outputs.what_if.scenario_comparisons
    IN  /\ {"normalize", "derive", "monte_carlo", "what_if"} \subseteq Succeeded(rec)
        /\ inputs.retirement_ages = retirement_ages_of(schema.retirement_window)
        /\ \E k \in 1..Len(comparisons) :
              /\ comparisons[k].assumptions.retirement_age_shift # 0
              /\ \A j \in 1..Len(inputs.retirement_ages) :
                    comparisons[k].recommended_retirement_age
                      > inputs.retirement_ages[j]

\* What the try body of run_pipeline does for a requested stage key on
\* outputs: whether the stage succeeded, its errors, and the outputs after.
stage_outcome(key, outputs) ==
    IF key = "validate"
    THEN LET validation == validate_schema(schema)
         IN  [ok |-> validation.valid, errors |-> validation.errors,
              outputs |-> SetOutput(outputs, "validate", validation)]
    ELSE LET val ==
                CASE key = "recommend" ->
                        build_recommendations(outputs.normalize,
                                              outputs.monte_carlo, 6)
                  [] key = "tables" ->
                        generate_tables(outputs.normalize, outputs.derive,
                                        outputs.monte_carlo, outputs.backtest)
                  [] key = "charts" ->
                        generate_chart_specs(outputs.normalize, outputs.derive,
                                             outputs.monte_carlo, outputs.backtest)
                  [] OTHER -> stage_call(key, outputs).val
         IN  IF stage_call(key, outputs).ok
             THEN [ok |-> TRUE, errors |-> <<>>,
                   outputs |-> SetOutput(outputs, key, val)]
             ELSE [ok |-> FALSE, errors |-> <<stage_call(key, outputs).err>>,
                   outputs |-> outputs]

\* The StageResult (without duration) and the outputs that the loop of
\* run_pipeline, run alone at stage key with outputs, leaves behind.
step_alone(key, outputs) ==
    IF key \notin requested_of(request)
    THEN [result |-> [stage |-> key, status |-> "skipped", errors |-> <<>>],
          outputs |-> outputs]
    ELSE CHOOSE end \in
            {[result |-> [stage |-> key,
                          status |-> IF out.ok THEN "success" ELSE "failed",
                          errors |-> out.errors],
              outputs |-> out.outputs] :
                out \in {stage_outcome(key, outputs)}} : TRUE

\* C24: two run_pipeline invocations whose stages interleave in any order
\* share no mutable state: every step of the loop of one run leaves the other
\* run as it was and appends the StageResult (stage, status, errors) and
\* leaves the outputs that the same stage produces when the run is alone,
\* from this run's own outputs, the request and the plan snapshot; so each
\* run's stage statuses and PipelineOutputs are those of the run made alone.
C24_InterleavedRunsAsAlone ==
    [][\A r \in Runs :
          (run[r].pc = "loop" /\ run'[r] # run[r])
            => /\ \A q \in Runs \ {r} : run'[q] = run[q]
               /\ \A alone \in {step_alone(stage_sequence[run[r].idx],
                                           run[r].outputs)} :
                     /\ Len(run'[r].results) = Len(run[r].results) + 1
                     /\ Outcomes(run'[r].results)[Len(run'[r].results)]
                          = alone.result
                     /\ run'[r].outputs = alone.outputs]_vars

\* C24 happens: both runs went through Monte Carlo and what_if, the second
\* started while the first was running and returned before it, and both
\* have returned.
C24_Witness ==
    /\ BothReturned
    /\ Len(run[1].results) = Len(stage_sequence)
    /\ run[1].outputs.monte_carlo.present
    /\ run[2].outputs.what_if.present
    /\ run[1].started_at <= run[2].started_at
    /\ run[2].started_at < run[1].completed_at
    /\ run[2].completed_at < run[1].completed_at

\* ------------------------------------------------------------ schema patches

\* A slot of an object holds a reference to another object, None, or a scalar.
Ref(a) == [kind |-> "ref", v |-> a]

NoneCell == [kind |-> "none", v |-> 0]

Plain(x) == [kind |-> "plain", v |-> x]

NoFields == [k \in {} |-> NoneCell]

\* An object of the Python heap: a pydantic model, a dict (fields = its keys)
\* or a list (items).  The heap is the sequence of objects, an address its index.
Obj(cls, fields) == [cls |-> cls, fields |-> fields, items |-> <<>>]

ListObj(items) == [cls |-> "list", fields |-> NoFields, items |-> items]

\* ProvenanceField(value=..., confidence=...); source, timestamp and note are
\* left out.
ProvenanceField(value, confidence) ==
    Obj("ProvenanceField", [value |-> value, confidence |-> Plain(confidence)])

\* type(obj).model_fields: the annotation of each field of a model class, for
\* the part of the canonical schema that is modelled.
model_fields(cls) ==
    CASE cls = "CanonicalPlanSchema" ->
            [scenario_name |-> "str",
             updated_at |-> "datetime",
             retirement_philosophy |-> "RetirementPhilosophy",
             spending |-> "SpendingProfile",
             social_security |-> "SocialSecurityProfile",
             monte_carlo |-> "MonteCarloConfig",
             planned_cashflows |-> "list"]
      [] cls = "RetirementPhilosophy" ->
            [success_probability_target |-> "ProvenanceField"]
      [] cls = "SpendingProfile" -> [budget_monthly |-> "dict"]
      [] cls = "SocialSecurityProfile" ->
            [claiming_preference |-> "ProvenanceField | None"]
      [] cls = "MonteCarloConfig" -> [required_success_rate |-> "ProvenanceField"]
      [] cls = "ProvenanceField" -> [value |-> "Any", confidence |-> "float"]
      [] OTHER -> [k \in {} |-> ""]

_is_provenance_annotation(annotation) ==
    annotation \in {"ProvenanceField", "ProvenanceField | None"}

\* _apply_remove: the annotation is a union with None.
is_optional(annotation) == annotation \in {"ProvenanceField | None"}

IsModel(heap, cell) == cell.kind = "ref" /\ heap[cell.v].cls \notin {"dict", "list"}

IsDict(heap, cell) == cell.kind = "ref" /\ heap[cell.v].cls = "dict"

IsList(heap, cell) == cell.kind = "ref" /\ heap[cell.v].cls = "list"

\* A plan as the caller of apply_patches holds it: the root at address 1.
\* target and source are the values of the two linked fields, claiming says
\* whether social_security.claiming_preference is set, groceries whether
\* spending.budget_monthly has that key.
SchemaHeap(source, target, claiming, groceries) ==
    <<Obj("CanonicalPlanSchema",
          [scenario_name |-> Plain(0), updated_at |-> Plain(0),
           retirement_philosophy |-> Ref(2), spending |-> Ref(7),
           social_security |-> Ref(6), monte_carlo |-> Ref(4),
           planned_cashflows |-> Ref(9)]),
      Obj("RetirementPhilosophy", [success_probability_target |-> Ref(3)]),
      ProvenanceField(source, 85),
      Obj("MonteCarloConfig", [required_success_rate |-> Ref(5)]),
      ProvenanceField(target, 85),
      Obj("SocialSecurityProfile",
          [claiming_preference |-> IF claiming THEN Ref(10) ELSE NoneCell]),
      Obj("SpendingProfile", [budget_monthly |-> Ref(8)]),
      Obj("dict", IF groceries THEN [k \in {"groceries"} |-> Ref(11)] ELSE NoFields),
      ListObj(<<>>),
      ProvenanceField(Plain(67), 85),
      ProvenanceField(Plain(40), 85)>>

\* The value of an object, whatever its address: what == compares.
RECURSIVE Reify(_, _)
Reify(heap, cell) ==
    IF cell.kind # "ref" THEN cell
    ELSE [cls |-> heap[cell.v].cls,
          fields |-> [k \in DOMAIN heap[cell.v].fields |->
                         Reify(heap, heap[cell.v].fields[k])],
          items |-> heap[cell.v].items]

\* An object moved by n addresses, the objects it refers to with it.
Relocated(obj, n) ==
    [obj EXCEPT !.fields = [k \in DOMAIN obj.fields |->
                               IF obj.fields[k].kind = "ref"
                               THEN Ref(obj.fields[k].v + n) ELSE obj.fields[k]]]

\* A copy that shares every object below the root with the original.
model_copy_shallow(heap, root) ==
    [heap |-> Append(heap, heap[root]), root |-> Len(heap) + 1]

\* schema.model_copy(deep=True): every object is copied to a new address.
model_copy_deep(heap, root) ==
    [heap |-> heap \o [a \in 1..Len(heap) |-> Relocated(heap[a], Len(heap))],
     root |-> root + Len(heap)]

\* A path is the sequence of its names and dots; split gives the pieces
\* between the dots, the empty ones included, as str.split(".") does.
RECURSIVE split(_)
split(path) ==
    IF path = <<>> THEN <<"">>
    ELSE IF Head(path) = "." THEN <<"">> \o split(Tail(path))
    ELSE IF Len(path) = 1 THEN <<Head(path)>>
    ELSE <<Head(path)>> \o split(Tail(Tail(path)))

PatchOp(op, path, value) == [op |-> op, path |-> path, value |-> value, confidence |-> 100]

\* _resolve_parent: walks all segments but the last.
RECURSIVE _resolve_parent(_, _, _)
_resolve_parent(heap, current, segments) ==
    IF Len(segments) = 1
    THEN [ok |-> TRUE, err |-> "", parent |-> current, key |-> segments[1]]
    ELSE IF IsModel(heap, current)
    THEN IF Head(segments) \notin DOMAIN model_fields(heap[current.v].cls)
         THEN [ok |-> FALSE, err |-> "Unknown field", parent |-> current, key |-> ""]
         ELSE _resolve_parent(heap, heap[current.v].fields[Head(segments)],
                              Tail(segments))
    ELSE IF IsDict(heap, current)
    THEN IF Head(segments) \notin DOMAIN heap[current.v].fields
         THEN [ok |-> FALSE, err |-> "Unknown key", parent |-> current, key |-> ""]
         ELSE _resolve_parent(heap, heap[current.v].fields[Head(segments)],
                              Tail(segments))
    ELSE [ok |-> FALSE, err |-> "Cannot traverse", parent |-> current, key |-> ""]

\* parent.key = cell, on a model (object.__setattr__) or a dict (parent[key]).
WithField(heap, a, key, cell) ==
    [heap EXCEPT ![a].fields = [k \in DOMAIN heap[a].fields \cup {key} |->
                                   IF k = key THEN cell ELSE heap[a].fields[k]]]

_apply_set(heap, parent, key, patch) ==
    IF IsModel(heap, parent)
    THEN IF key \notin DOMAIN model_fields(heap[parent.v].cls)
         THEN [ok |-> FALSE, err |-> "Unknown field", heap |-> heap]
         ELSE IF _is_provenance_annotation(model_fields(heap[parent.v].cls)[key])
         THEN [ok |-> TRUE, err |-> "",
               heap |-> WithField(Append(heap, ProvenanceField(patch.value,
                                                               patch.confidence)),
                                  parent.v, key, Ref(Len(heap) + 1))]
         ELSE [ok |-> TRUE, err |-> "",
               heap |-> WithField(heap, parent.v, key, patch.value)]
    ELSE IF IsDict(heap, parent)
    THEN [ok |-> TRUE, err |-> "",
          heap |-> WithField(Append(heap, ProvenanceField(patch.value,
                                                          patch.confidence)),
                             parent.v, key, Ref(Len(heap) + 1))]
    ELSE [ok |-> FALSE, err |-> "Cannot set", heap |-> heap]

_apply_remove(heap, parent, key) ==
    IF IsModel(heap, parent)
    THEN IF key \notin DOMAIN model_fields(heap[parent.v].cls)
         THEN [ok |-> FALSE, err |-> "Unknown field", heap |-> heap]
         ELSE IF ~is_optional(model_fields(heap[parent.v].cls)[key])
         THEN [ok |-> FALSE, err |-> "Cannot remove required field", heap |-> heap]
         ELSE [ok |-> TRUE, err |-> "",
               heap |-> WithField(heap, parent.v, key, NoneCell)]
    ELSE IF IsDict(heap, parent)
    THEN IF key \notin DOMAIN heap[parent.v].fields
         THEN [ok |-> FALSE, err |-> "Key not found", heap |-> heap]
         ELSE [ok |-> TRUE, err |-> "",
               heap |-> [heap EXCEPT ![parent.v].fields =
                            [k \in DOMAIN heap[parent.v].fields \ {key} |->
                                heap[parent.v].fields[k]]]]
    ELSE [ok |-> FALSE, err |-> "Cannot remove", heap |-> heap]

_apply_append(heap, parent, key, patch) ==
    IF ~(IsModel(heap, parent) \/ IsDict(heap, parent))
    THEN [ok |-> FALSE, err |-> "Cannot access", heap |-> heap]
    ELSE LET target == IF key \in DOMAIN heap[parent.v].fields
                       THEN heap[parent.v].fields[key] ELSE NoneCell
         IN  IF ~IsList(heap, target)
             THEN [ok |-> FALSE, err |-> "Cannot append to non-list field",
                   heap |-> heap]
             ELSE [ok |-> TRUE, err |-> "",
                   heap |-> [heap EXCEPT ![target.v].items =
                                Append(@, patch.value)]]

\* The body of the loop of apply_patches for one patch, on the copy `model`.
patch_applied(heap, model, patch) ==
    IF \E k \in 1..Len(split(patch.path)) : split(patch.path)[k] = ""
    THEN [ok |-> FALSE, err |-> "Empty or malformed path", heap |-> heap]
    ELSE LET at == _resolve_parent(heap, Ref(model), split(patch.path))
         IN  IF ~at.ok THEN [ok |-> FALSE, err |-> at.err, heap |-> heap]
             ELSE CASE patch.op = "set" -> _apply_set(heap, at.parent, at.key, patch)
                    [] patch.op = "remove" -> _apply_remove(heap, at.parent, at.key)
                    [] patch.op = "append" ->
                          _apply_append(heap, at.parent, at.key, patch)

\* The locals of apply_patches, and `given`: the value of the caller's schema
\* at the call.
PatchCall(heap, root) ==
    [pc |-> "call", heap |-> heap, schema |-> root, model |-> 0,
     applied |-> <<>>, rejected |-> <<>>, given |-> Reify(heap, Ref(root))]

\* model = schema.model_copy(deep=True)
PatchCopied(d) ==
    [d EXCEPT !.pc = "loop",
              !.heap = model_copy_deep(d.heap, d.schema).heap,
              !.model = model_copy_deep(d.heap, d.schema).root]

\* for patch in patches: applied or rejected
PatchLooped(d, patch) ==
    [d EXCEPT !.heap = patch_applied(d.heap, d.model, patch).heap,
              !.applied = IF patch_applied(d.heap, d.model, patch).ok
                          THEN Append(@, patch) ELSE @,
              !.rejected = IF patch_applied(d.heap, d.model, patch).ok THEN @
                           ELSE Append(@, <<patch,
                                           patch_applied(d.heap, d.model, patch).err>>)]

\* model.updated_at = datetime.now(timezone.utc); return model, PatchResult(...)
PatchReturned(d, clock) ==
    [d EXCEPT !.pc = "returned",
              !.heap = WithField(d.heap, d.model, "updated_at", Plain(clock))]

\* apply_patches(schema, patches) as one call.
RECURSIVE patches_looped(_, _)
patches_looped(d, patches) ==
    IF patches = <<>> THEN d
    ELSE patches_looped(PatchLooped(d, Head(patches)), Tail(patches))

apply_patches(heap, root, patches, clock) ==
    PatchReturned(patches_looped(PatchCopied(PatchCall(heap, root)), patches), clock)

\* Longest batch of patches of one call.
MaxPatches == 2

PatchPaths ==
    {<<"monte_carlo", ".", "required_success_rate">>,
     <<"social_security", ".", "claiming_preference">>,
     <<"spending", ".", "budget_monthly", ".", "groceries">>,
     <<"planned_cashflows">>,
     <<"scenario_name">>,
     <<"monte_carlo", ".", "bogus">>,
     <<"scenario_name", ".", "x">>,
     <<"monte_carlo", ".", "required_success_rate", ".", "value">>,
     <<"monte_carlo", ".">>,
     <<>>}

PatchOps ==
    {PatchOp("set", path, Plain(v)) : path \in PatchPaths, v \in {80, 95}}
      \cup {PatchOp("remove", path, NoneCell) : path \in PatchPaths}
      \cup {PatchOp("append", path, Plain(7)) : path \in PatchPaths}

PatchSchemas ==
    {SchemaHeap(Plain(95), Plain(80), TRUE, FALSE),
     SchemaHeap(Plain(95), Plain(80), FALSE, TRUE)}

PatchesInit ==
    /\ request = [stages |-> <<>>, seed |-> 42]
    /\ schema = BaseSchema
    /\ run = [r \in Runs |-> IdleRun]
    /\ now = 1
    /\ sim = IdleSim
    /\ doc \in {PatchCall(heap, 1) : heap \in PatchSchemas}
    /\ _plans = <<>>
    /\ _sessions = <<>>
    /\ _live_sessions = <<>>
    /\ calls = <<>>

ApplyPatchesCopy ==
    /\ doc.pc = "call"
    /\ doc' = PatchCopied(doc)
    /\ UNCHANGED <<pipeline, _plans, _sessions, _live_sessions, calls>>

ApplyPatchesLoop ==
    /\ doc.pc = "loop"
    /\ Len(doc.applied) + Len(doc.rejected) < MaxPatches
    /\ \E patch \in PatchOps : doc' = PatchLooped(doc, patch)
    /\ UNCHANGED <<pipeline, _plans, _sessions, _live_sessions, calls>>

ApplyPatchesReturn ==
    /\ doc.pc = "loop"
    /\ doc' = PatchReturned(doc, now)
    /\ UNCHANGED <<pipeline, _plans, _sessions, _live_sessions, calls>>

PatchesNext == ApplyPatchesCopy \/ ApplyPatchesLoop \/ ApplyPatchesReturn

SpecPatches == PatchesInit /\ [][PatchesNext]_vars

\* What a patch that applies does to the value of a schema: the value at its
\* path is replaced (set), cleared (remove) or extended (append).
RECURSIVE patched_value(_, _, _)
patched_value(tree, segments, patch) ==
    IF Len(segments) > 1
    THEN [tree EXCEPT !.fields[Head(segments)] =
             patched_value(tree.fields[Head(segments)], Tail(segments), patch)]
    ELSE CASE patch.op = "set" ->
                [tree EXCEPT !.fields =
                    [k \in DOMAIN tree.fields \cup {segments[1]} |->
                        IF k # segments[1] THEN tree.fields[k]
                        ELSE IF \/ tree.cls = "dict"
                                \/ _is_provenance_annotation(
                                       model_fields(tree.cls)[segments[1]])
                        THEN [cls |-> "ProvenanceField",
                              fields |-> [value |-> patch.value,
                                          confidence |-> Plain(patch.confidence)],
                              items |-> <<>>]
                        ELSE patch.value]]
           [] patch.op = "remove" ->
                IF tree.cls = "dict"
                THEN [tree EXCEPT !.fields =
                         [k \in DOMAIN tree.fields \ {segments[1]} |-> tree.fields[k]]]
                ELSE [tree EXCEPT !.fields[segments[1]] = NoneCell]
           [] patch.op = "append" ->
                [tree EXCEPT !.fields[segments[1]].items = Append(@, patch.value)]

RECURSIVE patches_value(_, _)
patches_value(tree, applied) ==
    IF applied = <<>> THEN tree
    ELSE patches_value(patched_value(tree, split(Head(applied).path), Head(applied)),
                       Tail(applied))

\* C25: apply_patches never mutates the schema it is given.  From the copy on,
\* whatever patches were applied or rejected, the caller's schema has the value
\* it had at the call and is another object than the copy; the copy has the
\* value of the given schema with the applied patches made in their order, and
\* the copy that is returned has that value with updated_at set to the time of
\* the call's end.
C25_OriginalNeverMutated ==
    doc.pc \in {"loop", "returned"}
      => /\ doc.schema # doc.model
         /\ Reify(doc.heap, Ref(doc.schema)) = doc.given
         /\ doc.pc = "loop"
              => Reify(doc.heap, Ref(doc.model)) = patches_value(doc.given, doc.applied)
         /\ doc.pc = "returned"
              => Reify(doc.heap, Ref(doc.model))
                   = [patches_value(doc.given, doc.applied)
                        EXCEPT !.fields.updated_at = Plain(now)]

\* A call returned after a set of monte_carlo.required_success_rate applied and
\* another patch was rejected: the copy has the new value, the original the old.
C25_Witness ==
    /\ doc.pc = "returned"
    /\ Len(doc.rejected) > 0
    /\ \E k \in 1..Len(doc.applied) :
          /\ doc.applied[k].op = "set"
          /\ doc.applied[k].path = <<"monte_carlo", ".", "required_success_rate">>
          /\ doc.applied[k].value = Plain(95)
    /\ Reify(doc.heap, Ref(doc.model)).fields.monte_carlo.fields
           .required_success_rate.fields.value = Plain(95)
    /\ Reify(doc.heap, Ref(doc.schema)).fields.monte_carlo.fields
           .required_success_rate.fields.value = Plain(80)

\* --------------------------------------------------------- the plan store

PlanIds == {"plan-1", "plan-2"}

Clients == {1, 2}

\* Versions stay below MaxVersion.
MaxVersion == 4

\* No plan under this id: dict.get returns None.
NoPlan ==
    [present |-> FALSE, version |-> 0, status |-> "", scenario_name |-> "",
     client |-> [name |-> ""], updated_at |-> 0]

\* A plan as the interview creates it: CanonicalPlanSchema's version is 1 by
\* default.
NewPlan ==
    [present |-> TRUE, version |-> 1, status |-> "intake_in_progress",
     scenario_name |-> "Default", client |-> [name |-> "Adam"], updated_at |-> 0]

\* _set_dot_path: getattr along all parts but the last, setattr of the last.
RECURSIVE _set_dot_path(_, _, _)
_set_dot_path(obj, parts, value) ==
    IF Len(parts) = 1 THEN [obj EXCEPT ![parts[1]] = value]
    ELSE [obj EXCEPT ![Head(parts)] = _set_dot_path(obj[Head(parts)], Tail(parts), value)]

\* for key, value in updates.items(): _set_dot_path(plan, key, value)
RECURSIVE updates_set(_, _)
updates_set(plan, updates) ==
    IF updates = <<>> THEN plan
    ELSE updates_set(_set_dot_path(plan, split(Head(updates).key), Head(updates).value),
                     Tail(updates))

\* update_fields without the comparison of versions.
update_fields_unversioned(plans, plan_id, updates, expected_version, clock) ==
    IF ~plans[plan_id].present THEN [plans |-> plans, returned |-> NoPlan]
    ELSE [plans |-> [plans EXCEPT ![plan_id] =
                        [updates_set(plans[plan_id], updates)
                           EXCEPT !.version = @ + 1, !.updated_at = clock]],
          returned |-> [updates_set(plans[plan_id], updates)
                          EXCEPT !.version = @ + 1, !.updated_at = clock]]

\* InMemoryPlanStore.update_fields: the store after the call and what the call
\* returns (NoPlan for None).  It never awaits, so it is one step.
update_fields(plans, plan_id, updates, expected_version, clock) ==
    IF ~plans[plan_id].present THEN [plans |-> plans, returned |-> NoPlan]
    ELSE IF expected_version.has /\ plans[plan_id].version # expected_version.v
    THEN [plans |-> plans, returned |-> NoPlan]
    ELSE [plans |-> [plans EXCEPT ![plan_id] =
                        [updates_set(plans[plan_id], updates)
                           EXCEPT !.version = @ + 1, !.updated_at = clock]],
          returned |-> [updates_set(plans[plan_id], updates)
                          EXCEPT !.version = @ + 1, !.updated_at = clock]]

UpdateBatches ==
    {<<>>,
     <<[key |-> <<"status">>, value |-> "intake_complete"]>>,
     <<[key |-> <<"scenario_name">>, value |-> "New Name"],
       [key |-> <<"client", ".", "name">>, value |-> "Bob"]>>}

\* What the callers of the store hold: the version each one read, the last
\* call with the stored plan before it and its return value, and per plan the
\* expected versions of the updates that succeeded since the plan was last
\* saved or deleted.
NoCall ==
    [op |-> "", client |-> 0, plan_id |-> "", updates |-> <<>>,
     expected_version |-> None, before |-> NoPlan, returned |-> NoPlan]

\* The plans that are ever saved; the other ids stay unknown to the store.
SavedPlanIds == {"plan-1"}

PlanStoreInit ==
    /\ request = [stages |-> <<>>, seed |-> 42]
    /\ schema = BaseSchema
    /\ run = [r \in Runs |-> IdleRun]
    /\ now = 1
    /\ sim = IdleSim
    /\ doc = [pc |-> "idle"]
    /\ _plans = [p \in PlanIds |-> NoPlan]
    /\ _sessions = <<>>
    /\ _live_sessions = <<>>
    /\ calls = [seen |-> [c \in Clients |-> None],
                last |-> NoCall,
                succeeded |-> [p \in PlanIds |-> <<>>]]

\* store.get(plan_id): the caller reads the version.
PlanGet(c, plan_id) ==
    /\ calls' = [calls EXCEPT
          !.seen[c] = IF _plans[plan_id].present
                      THEN Some(_plans[plan_id].version) ELSE None,
          !.last = [NoCall EXCEPT !.op = "get", !.client = c, !.plan_id = plan_id,
                                  !.before = _plans[plan_id],
                                  !.returned = _plans[plan_id]]]
    /\ UNCHANGED <<pipeline, doc, _plans, _sessions, _live_sessions>>

\* store.save(plan) of a new plan or of the object the store returned:
\* plan.version += 1; self._plans[plan.plan_id] = plan
PlanSave(c, plan_id) ==
    /\ plan_id \in SavedPlanIds
    /\ \E plan \in {NewPlan, _plans[plan_id]} :
          /\ plan.present
          /\ plan.version < MaxVersion
          /\ _plans' = [_plans EXCEPT ![plan_id] = [plan EXCEPT !.version = @ + 1]]
    /\ calls' = [calls EXCEPT
          !.succeeded[plan_id] = <<>>,
          !.last = [NoCall EXCEPT !.op = "save", !.client = c, !.plan_id = plan_id,
                                  !.before = _plans[plan_id]]]
    /\ UNCHANGED <<pipeline, doc, _sessions, _live_sessions>>

\* store.delete(plan_id)
PlanDelete(c, plan_id) ==
    /\ _plans' = [_plans EXCEPT ![plan_id] = NoPlan]
    /\ calls' = [calls EXCEPT
          !.succeeded[plan_id] = <<>>,
          !.last = [NoCall EXCEPT !.op = "delete", !.client = c, !.plan_id = plan_id,
                                  !.before = _plans[plan_id]]]
    /\ UNCHANGED <<pipeline, doc, _sessions, _live_sessions>>

\* store.update_fields(plan_id, updates, expected_version), with no expected
\* version, the version the caller read, or one that no plan has.
PlanUpdateFields(c, plan_id) ==
    /\ _plans[plan_id].version < MaxVersion
    /\ \E updates \in UpdateBatches, expected_version \in {None, calls.seen[c], Some(999)} :
          /\ _plans' = update_fields(_plans, plan_id, updates, expected_version, now).plans
          /\ calls' = [calls EXCEPT
                !.succeeded[plan_id] =
                    IF update_fields(_plans, plan_id, updates, expected_version,
                                     now).returned.present
                    THEN Append(@, expected_version) ELSE @,
                !.last = [op |-> "update_fields", client |-> c, plan_id |-> plan_id,
                          updates |-> updates, expected_version |-> expected_version,
                          before |-> _plans[plan_id],
                          returned |-> update_fields(_plans, plan_id, updates,
                                                     expected_version, now).returned]]
    /\ UNCHANGED <<pipeline, doc, _sessions, _live_sessions>>

PlanStoreNext ==
    \E c \in Clients, plan_id \in PlanIds :
        \/ PlanGet(c, plan_id)
        \/ PlanSave(c, plan_id)
        \/ PlanDelete(c, plan_id)
        \/ PlanUpdateFields(c, plan_id)

SpecPlanStore == PlanStoreInit /\ [][PlanStoreNext]_vars

\* getattr along a dotted path.
RECURSIVE dot_path_value(_, _)
dot_path_value(obj, parts) ==
    IF Len(parts) = 1 THEN obj[parts[1]]
    ELSE dot_path_value(obj[Head(parts)], Tail(parts))

RECURSIVE _resolve_path_value(_, _, _)
_resolve_path_value(heap, current, segments) ==
    IF segments = <<>>
    THEN IF current.kind = "ref" /\ heap[current.v].cls = "ProvenanceField"
         THEN heap[current.v].fields.value
         ELSE current
    ELSE IF ~(IsModel(heap, current) \/ IsDict(heap, current)) THEN NoneCell
    ELSE IF Head(segments) \notin DOMAIN heap[current.v].fields THEN NoneCell
    ELSE IF heap[current.v].fields[Head(segments)].kind = "none" THEN NoneCell
    ELSE _resolve_path_value(heap, heap[current.v].fields[Head(segments)],
                             Tail(segments))

LinkedSource == <<"retirement_philosophy", ".", "success_probability_target">>

LinkedTarget == <<"monte_carlo", ".", "required_success_rate">>

\* _LINKED_FIELDS
_LINKED_FIELDS == <<[source |-> LinkedSource, target |-> LinkedTarget]>>

\* The patches _sync_linked_fields collects: one per pair whose source has a
\* value and whose target is None or 0.
RECURSIVE linked_patches(_, _, _)
linked_patches(heap, root, pairs) ==
    IF pairs = <<>> THEN <<>>
    ELSE (IF /\ _resolve_path_value(heap, Ref(root), split(Head(pairs).source))
                  # NoneCell
             /\ _resolve_path_value(heap, Ref(root), split(Head(pairs).target))
                  \in {NoneCell, Plain(0)}
          THEN <<PatchOp("set", Head(pairs).target,
                         _resolve_path_value(heap, Ref(root),
                                             split(Head(pairs).source)))>>
          ELSE <<>>)
         \o linked_patches(heap, root, Tail(pairs))

\* _sync_linked_fields(schema): apply_patches of the collected patches, or the
\* schema itself (the same object) when there is none.
_sync_linked_fields(heap, root, clock) ==
    IF linked_patches(heap, root, _LINKED_FIELDS) # <<>>
    THEN apply_patches(heap, root, linked_patches(heap, root, _LINKED_FIELDS), clock)
    ELSE [PatchCall(heap, root) EXCEPT !.pc = "returned", !.model = root]

\* Interview turns of one session.
MaxTurns == 2

LinkedValues == {NoneCell, Plain(0), Plain(80), Plain(95)}

\* What the extractor may emit for the two linked fields in one turn.
LinkedPatchOps ==
    {PatchOp("set", path, v) : path \in {LinkedSource, LinkedTarget},
                               v \in {Plain(0), Plain(80), Plain(95)}}
      \cup {PatchOp("remove", LinkedTarget, NoneCell)}

\* An interview session: self.schema is doc.schema in doc.heap; pc is "turn"
\* before extract_and_apply, "extracted" after it, "synced" after
\* _sync_linked_fields; turns counts the turns begun.
LinkedInit ==
    /\ request = [stages |-> <<>>, seed |-> 42]
    /\ schema = BaseSchema
    /\ run = [r \in Runs |-> IdleRun]
    /\ now = 1
    /\ sim = IdleSim
    /\ doc \in {[pc |-> "turn", heap |-> SchemaHeap(source, target, FALSE, FALSE),
                 schema |-> 1, model |-> 1, turns |-> 0] :
                   source \in LinkedValues, target \in LinkedValues}
    /\ _plans = <<>>
    /\ _sessions = <<>>
    /\ _live_sessions = <<>>
    /\ calls = <<>>

\* respond: updated_schema, patch_result = apply_patches(self.schema, ops)
Extracted ==
    /\ doc.pc \in {"turn", "synced"}
    /\ doc.turns < MaxTurns
    /\ \E batch \in {<<>>} \cup {<<op>> : op \in LinkedPatchOps} :
          doc' = [doc EXCEPT
                    !.pc = "extracted",
                    !.heap = apply_patches(doc.heap, doc.schema, batch, now).heap,
                    !.model = apply_patches(doc.heap, doc.schema, batch, now).model,
                    !.turns = @ + 1]
    /\ UNCHANGED <<pipeline, _plans, _sessions, _live_sessions, calls>>

\* respond: updated_schema, _ = _sync_linked_fields(updated_schema);
\* self.schema = updated_schema
SyncLinkedFields ==
    /\ doc.pc \in {"turn", "extracted"}
    /\ doc' = [doc EXCEPT
                 !.pc = "synced",
                 !.heap = _sync_linked_fields(doc.heap, doc.model, now).heap,
                 !.schema = _sync_linked_fields(doc.heap, doc.model, now).model,
                 !.model = _sync_linked_fields(doc.heap, doc.model, now).model]
    /\ UNCHANGED <<pipeline, _plans, _sessions, _live_sessions, calls>>

LinkedNext == Extracted \/ SyncLinkedFields

SpecLinked == LinkedInit /\ [][LinkedNext]_vars

\* C27: after _sync_linked_fields, whenever the source field
\* retirement_philosophy.success_probability_target has a value, the target
\* monte_carlo.required_success_rate holds that same value, also when the two
\* differed before (the source wins).
C27_SourceWins ==
    doc.pc = "synced"
      => \/ _resolve_path_value(doc.heap, Ref(doc.schema), split(LinkedSource))
              = NoneCell
         \/ _resolve_path_value(doc.heap, Ref(doc.schema), split(LinkedTarget))
              = _resolve_path_value(doc.heap, Ref(doc.schema), split(LinkedSource))

\* C28: build_recommendations emits REC_EARLIEST_AGE_MEETS_TARGET only when
\* the base result of the earliest modeled retirement age has a success
\* probability that reaches the target.
C28_EarliestAgeMeetsTarget ==
    LET rec == run[1]
        mc == rec.outputs.monte_carlo
    IN  RecommendJustRan
          => \A k \in 1..Len(rec.outputs.recommend) :
                rec.outputs.recommend[k].rule_id = "REC_EARLIEST_AGE_MEETS_TARGET"
                  => /\ mc.present
                     /\ \E j \in 1..Len(mc.base_results) :
                           /\ mc.base_results[j].retirement_age
                                = rec.outputs.recommend[k].evidence.earliest_modeled_age
                           /\ mc.base_results[j].success_probability
                                >= mc.assessment.minimum_success_probability_target

\* The stages that read the normalized inputs with inputs["..."].
NeedInputs == {"derive", "monte_carlo", "backtest", "what_if"}

\* The indices of the StageResults of rec with this stage and status.
ResultsOf(rec, key, status) ==
    {k \in 1..Len(rec.results) :
        rec.results[k].stage = key /\ rec.results[k].status = status}

\* C29 as stated: derive, monte_carlo, backtest and what_if end 'success'
\* only if normalize ended 'success' earlier in the same run, and in a
\* returned run each of them that was requested without normalize has ended
\* 'failed'.
C29_EachWithoutNormalizeFails ==
    LET rec == run[1]
    IN  /\ \A key \in NeedInputs :
              \A k \in ResultsOf(rec, key, "success") :
                  \E j \in ResultsOf(rec, "normalize", "success") : j < k
        /\ (rec.pc = "done" /\ "normalize" \notin requested_of(request))
             => \A key \in NeedInputs \cap requested_of(request) :
                   ResultsOf(rec, key, "failed") # {}

\* C29 amended: derive, monte_carlo, backtest and what_if end 'success' only
\* if normalize ended 'success' earlier in the same run.  When normalize is not
\* requested, none of them ends 'success'; the first of them in pipeline order
\* that is requested ends 'failed' unless validate failed before it, its
\* StageResult is the last one and the loop is left; the requested ones after
\* it are never executed and have no StageResult.
C29_FirstWithoutNormalizeFails ==
    LET rec == run[1]
        wanted == NeedInputs \cap requested_of(request)
    IN  /\ \A key \in NeedInputs :
              \A k \in ResultsOf(rec, key, "success") :
                  \E j \in ResultsOf(rec, "normalize", "success") : j < k
        /\ ("normalize" \notin requested_of(request) /\ wanted # {})
             => \A first \in {key \in wanted :
                                 \A other \in wanted :
                                     stage_index(key) <= stage_index(other)} :
                   /\ \A key \in wanted :
                         /\ ResultsOf(rec, key, "success") = {}
                         /\ ResultsOf(rec, key, "skipped") = {}
                         /\ key # first => ResultsOf(rec, key, "failed") = {}
                         /\ key # first
                              => key \notin {rec.executed[k] : k \in 1..Len(rec.executed)}
                   /\ ResultsOf(rec, first, "failed") \subseteq {Len(rec.results)}
                   /\ ResultsOf(rec, first, "failed") # {} => Halted(1)
                   /\ rec.pc = "done"
                        => \/ ResultsOf(rec, first, "failed") # {}
                           \/ ResultsOf(rec, "validate", "failed") # {}

\* C29 happens: a run without normalize has returned; derive, the first of
\* the requested stages that read the inputs, has failed after validate
\* succeeded, and monte_carlo, also requested, has no StageResult.
C29_Witness ==
    LET rec == run[1]
    IN  /\ rec.pc = "done"
        /\ "normalize" \notin requested_of(request)
        /\ {"derive", "monte_carlo"} \subseteq requested_of(request)
        /\ ResultsOf(rec, "validate", "success") # {}
        /\ ResultsOf(rec, "derive", "failed") = {Len(rec.results)}
        /\ \A k \in 1..Len(rec.results) : rec.results[k].stage # "monte_carlo"

\* ------------------------------------------------- sessions and their cache

SessionIds == {"session-1", "session-2", "session-3"}

\* No session under this id: dict.get returns None.
NoSession == [present |-> FALSE, plan_id |-> "", created_at |-> 0]

\* A SessionDocument, or an InterviewSession with its schema.plan_id.
Session(plan_id, created_at) ==
    [present |-> TRUE, plan_id |-> plan_id, created_at |-> created_at]

\* The sessions of a plan among the values of a dict, and the latest of them.
SessionsOf(sessions, plan_id) ==
    {s \in SessionIds : sessions[s].present /\ sessions[s].plan_id = plan_id}

Latest(sessions, plan_id) ==
    {s \in SessionsOf(sessions, plan_id) :
        \A o \in SessionsOf(sessions, plan_id) :
            sessions[o].created_at <= sessions[s].created_at}

\* InMemorySessionStore.delete_for_plan
delete_for_plan(sessions, plan_id) ==
    [s \in SessionIds |-> IF s \in SessionsOf(sessions, plan_id) THEN NoSession
                          ELSE sessions[s]]

\* deps.get_session(session_id): the cached session, or the stored document
\* turned into a session when its plan exists; [returned, live]
get_session(plans, sessions, live, session_id) ==
    IF live[session_id].present
    THEN [returned |-> live[session_id], live |-> live]
    ELSE IF ~sessions[session_id].present THEN [returned |-> NoSession, live |-> live]
    ELSE IF ~plans[sessions[session_id].plan_id].present
    THEN [returned |-> NoSession, live |-> live]
    ELSE [returned |-> sessions[session_id],
          live |-> [live EXCEPT ![session_id] = sessions[session_id]]]

\* The last call of the session service, its argument and what it returned,
\* and the plans that delete_plan was called for.
SessionsInit ==
    /\ request = [stages |-> <<>>, seed |-> 42]
    /\ schema = BaseSchema
    /\ run = [r \in Runs |-> IdleRun]
    /\ now = 0
    /\ sim = IdleSim
    /\ doc = [pc |-> "idle"]
    /\ _plans = [p \in PlanIds |-> NoPlan]
    /\ _sessions = [s \in SessionIds |-> NoSession]
    /\ _live_sessions = [s \in SessionIds |-> NoSession]
    /\ calls = [last |-> [op |-> "", arg |-> "", returned |-> NoSession],
                deleted |-> {}]

\* deps.store_plan of a new plan; plan ids are fresh uuids, so the id of a
\* deleted plan is not used again.
StorePlan(plan_id) ==
    /\ ~_plans[plan_id].present
    /\ plan_id \notin calls.deleted
    /\ _plans' = [_plans EXCEPT ![plan_id] = [NewPlan EXCEPT !.version = @ + 1]]
    /\ calls' = [calls EXCEPT !.last = [op |-> "store_plan", arg |-> plan_id,
                                        returned |-> NoSession]]
    /\ UNCHANGED <<pipeline, doc, _sessions, _live_sessions>>

\* deps.store_session of a new session of a stored plan: session ids are
\* fresh uuids too.
StoreSession(session_id, plan_id) ==
    /\ _plans[plan_id].present
    /\ ~_sessions[session_id].present
    /\ ~_live_sessions[session_id].present
    /\ \E created_at \in 0..MaxClock :
          /\ _live_sessions' = [_live_sessions EXCEPT
                                   ![session_id] = Session(plan_id, created_at)]
          /\ _sessions' = [_sessions EXCEPT
                              ![session_id] = Session(plan_id, created_at)]
    /\ calls' = [calls EXCEPT !.last = [op |-> "store_session", arg |-> session_id,
                                        returned |-> NoSession]]
    /\ UNCHANGED <<pipeline, doc, _plans>>

\* The process starts again with the same stores: the cache is empty.
Restart ==
    /\ \E s \in SessionIds : _live_sessions[s].present
    /\ _live_sessions' = [s \in SessionIds |-> NoSession]
    /\ calls' = [calls EXCEPT !.last = [op |-> "restart", arg |-> "",
                                        returned |-> NoSession]]
    /\ UNCHANGED <<pipeline, doc, _plans, _sessions>>

\* deps.get_session(session_id)
GetSession(session_id) ==
    /\ _live_sessions'
         = get_session(_plans, _sessions, _live_sessions, session_id).live
    /\ calls' = [calls EXCEPT
          !.last = [op |-> "get_session", arg |-> session_id,
                    returned |-> get_session(_plans, _sessions, _live_sessions,
                                             session_id).returned]]
    /\ UNCHANGED <<pipeline, doc, _plans, _sessions>>

\* deps.get_session_for_plan(plan_id): the latest cached session of the plan,
\* else the latest stored one when the plan exists, which is then cached.
GetSessionForPlan(plan_id) ==
    /\ IF SessionsOf(_live_sessions, plan_id) # {}
       THEN /\ \E s \in Latest(_live_sessions, plan_id) :
                  calls' = [calls EXCEPT
                      !.last = [op |-> "get_session_for_plan", arg |-> plan_id,
                                returned |-> _live_sessions[s]]]
            /\ UNCHANGED _live_sessions
       ELSE IF SessionsOf(_sessions, plan_id) = {} \/ ~_plans[plan_id].present
       THEN /\ calls' = [calls EXCEPT
                  !.last = [op |-> "get_session_for_plan", arg |-> plan_id,
                            returned |-> NoSession]]
            /\ UNCHANGED _live_sessions
       ELSE \E s \in Latest(_sessions, plan_id) :
               /\ calls' = [calls EXCEPT
                     !.last = [op |-> "get_session_for_plan", arg |-> plan_id,
                               returned |-> _sessions[s]]]
               /\ _live_sessions' = [_live_sessions EXCEPT ![s] = _sessions[s]]
    /\ UNCHANGED <<pipeline, doc, _plans, _sessions>>

\* deps.delete_plan(plan_id): the stored sessions of the plan, then the plan.
DeletePlan(plan_id) ==
    /\ _sessions' = delete_for_plan(_sessions, plan_id)
    /\ _plans' = [_plans EXCEPT ![plan_id] = NoPlan]
    /\ calls' = [calls EXCEPT !.last = [op |-> "delete_plan", arg |-> plan_id,
                                        returned |-> NoSession],
                              !.deleted = @ \cup {plan_id}]
    /\ UNCHANGED <<pipeline, doc, _live_sessions>>

SessionsNext ==
    \/ \E plan_id \in PlanIds :
          \/ StorePlan(plan_id)
          \/ GetSessionForPlan(plan_id)
          \/ DeletePlan(plan_id)
          \/ \E session_id \in SessionIds : StoreSession(session_id, plan_id)
    \/ \E session_id \in SessionIds : GetSession(session_id)
    \/ Restart

SpecSessions == SessionsInit /\ [][SessionsNext]_vars

\* C30: once delete_plan(plan_id) has completed, get_session(session_id) and
\* get_session_for_plan(plan_id) return None for every session of that plan,
\* the sessions held in the live-session cache before the deletion included.
C30_DeletedPlanHasNoSessions ==
    /\ calls.last.op = "get_session_for_plan" /\ calls.last.arg \in calls.deleted
         => ~calls.last.returned.present
    /\ calls.last.op = "get_session"
         => ~( /\ calls.last.returned.present
               /\ calls.last.returned.plan_id \in calls.deleted )

====
